---- MODULE Spec2Model ----
(***************************************************************************)
(* A model of nova/virt/xenapi/vmops.py (class VMOps): the staged          *)
(* lifecycle operations of a XenAPI virtual machine, their progress        *)
(* reporting and their rollback.                                           *)
(*                                                                         *)
(* One lifecycle operation runs at a time (the compute manager serialises  *)
(* the operations of one instance).  The hypervisor (VM records, disks,    *)
(* kernel/ramdisk files) is state of the model; every remote call may      *)
(* fail, which is a nondeterministic choice of the action that issues it.  *)
(* nova.utils.UndoManager and nova.virt.xenapi.vm_utils are not part of    *)
(* the sources at hand; they are modelled from the specification.          *)
(***************************************************************************)
EXTENDS Integers, Sequences, FiniteSets, TLC

\* ------------------------------------------------------------------ bounds
\* Number of VM references the hypervisor can hand out.
MaxVMs == 3
\* Polls of _wait_for_instance_to_start before running_timeout expires.
MaxPolls == 2
\* Largest disk size (GB) of an instance or a flavor.
MaxGb == 2
\* Largest number of ephemeral disks of a VM.
MaxEph == 2
\* Threads that call the xenstore writers at the same time.
MaxWriters == 2
MaxVolumes == 2
MaxSpawners == 2

\* ------------------------------------------------------- program constants
RESIZE_TOTAL_STEPS == 5

\* --------------------------------------------------------------- constants
Name       == "inst"            \* instance['name']
OrigName   == "inst-orig"       \* _get_orig_vm_name_label
RescueName == "inst-rescue"     \* '%s-rescue' % instance['name']
NoName     == "none"            \* no VM record behind the reference
None       == 0                 \* Python None for a VM reference
VMRefs     == 1..MaxVMs
VDIs       == {"orig_root", "root", "gen", "copy"}
Files      == {"kernel", "ramdisk"}

VARIABLES
    pc,          \* position of the running operation
    op,          \* the operation called and its arguments
    instance,    \* the instance record: kernel_id, ramdisk_id
    vms,         \* hypervisor: VM reference -> [name, power, bootlock]
    vdis,        \* hypervisor: the VDIs that exist
    vbds,        \* hypervisor: <<VM reference, VDI>> attachments
    files,       \* dom0: kernel/ramdisk files of the instance
    vm_ref,      \* local vm_ref of the running operation
    undo_stack,  \* UndoManager.undo_stack
    registered,  \* history: the compensations passed to undo_with, in order
    undo_ran,    \* history: [undo, outcome] of the compensations invoked
    step_info,   \* make_step_decorator: [total, current]
    emitted,     \* history: progress updates written to the instance record
    steps_run,   \* history: steps whose body completed, in order
    calls,       \* history: state-changing remote calls of the operation
    polls,       \* _wait_for_instance_to_start: polls made so far
    chains,      \* resize up: [left, active] ephemeral chains to go / done
    raised,      \* the error in flight, at "done" the one the caller observes
    locks,       \* utils.synchronized: lock name (instance uuid) -> holder
    xenstore,    \* instance uuid -> keys in the xenstore data of its VM
    writers,     \* the threads that call the xenstore writers of VMOps
    spawners     \* the threads that call spawn at the same time

vars == <<pc, op, instance, vms, vdis, vbds, files, vm_ref, undo_stack,
          registered, undo_ran, step_info, emitted, steps_run, calls,
          polls, chains, raised, locks, xenstore, writers, spawners>>

lifecycle_vars == <<pc, op, instance, vms, vdis, vbds, files, vm_ref,
                    undo_stack, registered, undo_ran, step_info, emitted,
                    steps_run, calls, polls, chains, raised>>
xenstore_vars  == <<locks, xenstore, writers>>
race_vars      == <<spawners>>

hyp   == <<vms, vdis, vbds, files>>
hist  == <<undo_ran, steps_run, calls>>
prog  == <<step_info, emitted>>

\* ------------------------------------------------------------------ errors
\* An error is [kind, at, rolled_back]: kind is the exception class, at the
\* step or call that raised it, rolled_back the InstanceFaultRollback /
\* "rolled back" wrapper around the original error.
NoError == [kind |-> "none", at |-> "none", rolled_back |-> FALSE]
Error(kind, at) == [kind |-> kind, at |-> at, rolled_back |-> FALSE]
NoVM == [name |-> NoName, power |-> "Halted", bootlock |-> FALSE]

\* ----------------------------------------------------------------- helpers
\* vm_utils.lookup: the reference of the VM with this name label, or None.
lookup(vs, name_label) ==
    IF \E r \in VMRefs : vs[r].name = name_label
    THEN CHOOSE r \in VMRefs : vs[r].name = name_label /\
                               \A q \in VMRefs : vs[q].name = name_label => r <= q
    ELSE None

\* The reference the hypervisor hands out for a new VM record.
FreshRef(vs) == CHOOSE r \in VMRefs : vs[r].name = NoName /\
                    \A q \in VMRefs : vs[q].name = NoName => r <= q

\* vm_utils.is_vm_shutdown
is_vm_shutdown(vs, ref) == vs[ref].power = "Halted"

\* round(float(step) / total_steps * 100), Python 2: halves round away from 0.
Progress(step, total_steps) == (200 * step + total_steps) \div (2 * total_steps)

\* Fault variant of _update_instance_progress: the progress is computed
\* against the step count of a resize instead of the total handed in.
_update_instance_progress_resize_total(em, step, total_steps) ==
    Append(em, [progress |-> Progress(step, RESIZE_TOTAL_STEPS),
                step |-> step, total |-> RESIZE_TOTAL_STEPS])

\* _update_instance_progress: the update written to the instance record.
\* Fault variant of _update_instance_progress: the progress written is
\* that of the step after this one.
_update_instance_progress_of_next_step(em, step, total_steps) ==
    Append(em, [progress |-> Progress(step + 1, total_steps),
                step |-> step, total |-> total_steps])

_update_instance_progress(em, step, total_steps) ==
    Append(em, [progress |-> Progress(step, total_steps),
                step |-> step, total |-> total_steps])

\* ---------------------------------------------------------- UndoManager
\* utils.UndoManager.undo_with: push a compensation on the ledger.
undo_with(stack, undo_func) == Append(stack, undo_func)

\* utils.UndoManager._rollback: the compensation to invoke next is the one
\* registered last.
NextUndo(stack) == stack[Len(stack)]

\* utils.UndoManager._rollback: a compensation that raises is caught and
\* logged, the unwind goes on with the compensations registered before it.
AfterUndo(stack, undo_raised) == SubSeq(stack, 1, Len(stack) - 1)

\* utils.UndoManager._rollback: the error of a compensation that raises is
\* logged; the error in flight stays the one that started the rollback.
ErrorAfterUndo(error, undo_func, undo_raised) == error

\* utils.UndoManager.rollback_and_reraise: after the unwind the original
\* error is re-raised, marked as rolled back.
rollback_and_reraise(error) == [error EXCEPT !.rolled_back = TRUE]

\* exception.InstanceFaultRollback(error): wraps the inner error.
InstanceFaultRollback(error) == [error EXCEPT !.rolled_back = TRUE]

\* ------------------------------------------------------ xenstore writers
\* The threads that can be inside VMOps at once, the instances they work
\* on, and the keys of the xenstore data the writers of VMOps use.
Writers == 1..MaxWriters
UUIDs   == {"uuid-a", "uuid-b"}
KeyHostname       == "vm-data/hostname"
KeyUserMetadata   == "vm-data/user-metadata/k"
KeyAutoDiskConfig == "vm-data/auto-disk-config"
KeyNetworking     == "vm-data/networking/mac"

\* The threads that call spawn at once; one that has not called it yet.
Spawners == 1..MaxSpawners
NoSpawner == [pc |-> "idle", vm_ref |-> None, raised |-> "none"]

\* A thread that is in none of the writers.
NoWriter == [pc |-> "idle", uuid |-> "uuid-a", fn |-> "none", plan |-> <<>>,
             raised |-> FALSE, plugin_error |-> "none", returned |-> "none"]

\* ------------------------------------------------------------------- Init
\* The hypervisor states an operation can be called in.
HypEmpty ==
    [vms |-> [r \in VMRefs |-> NoVM], vdis |-> {}, vbds |-> {}]

HypInstance(power) ==
    [vms |-> [r \in VMRefs |-> IF r = 1
                 THEN [name |-> Name, power |-> power, bootlock |-> FALSE]
                 ELSE NoVM],
     vdis |-> {"orig_root"}, vbds |-> {<<1, "orig_root">>}]

HypRescued ==
    [vms |-> [r \in VMRefs |->
                 IF r = 1 THEN [name |-> Name, power |-> "Halted",
                                bootlock |-> TRUE]
                 ELSE IF r = 2 THEN [name |-> RescueName, power |-> "Running",
                                     bootlock |-> FALSE]
                 ELSE NoVM],
     vdis |-> {"orig_root", "root"},
     vbds |-> {<<1, "orig_root">>, <<2, "root">>, <<2, "orig_root">>}]

HypMigrated ==
    [vms |-> [r \in VMRefs |-> IF r = 1
                 THEN [name |-> OrigName, power |-> "Halted",
                       bootlock |-> FALSE]
                 ELSE NoVM],
     vdis |-> {"orig_root"}, vbds |-> {<<1, "orig_root">>}]

InitHyps == {HypEmpty, HypInstance("Running"), HypInstance("Halted"),
             HypRescued, HypMigrated}

NoOp == [kind |-> "none", name_label |-> Name, rescue |-> FALSE,
         first_boot |-> TRUE, power_on |-> TRUE, counted |-> TRUE,
         root_osvol |-> FALSE, was_power |-> "Halted",
         old_gb |-> 0, new_gb |-> 0, destroy_disks |-> TRUE,
         failure |-> <<>>, bad_volumes_callback |-> FALSE,
         bad_devices |-> {}, detached |-> {}, callback_args |-> {},
         block_device_mapping |-> <<>>, connected |-> {},
         sr_uuid_map |-> <<>>, forgotten |-> <<>>,
         diff |-> <<>>, found |-> FALSE, processed |-> {},
         live_calls |-> {}, param_before |-> {}, param_xenstore |-> {}]

Init ==
    /\ pc = "idle"
    /\ op = NoOp
    /\ instance \in [kernel_id : BOOLEAN, ramdisk_id : BOOLEAN]
    /\ \E h \in InitHyps : vms = h.vms /\ vdis = h.vdis /\ vbds = h.vbds
    /\ files = {}
    /\ vm_ref = None
    /\ undo_stack = <<>>
    /\ registered = <<>>
    /\ undo_ran = <<>>
    /\ step_info = [total |-> 0, current |-> 0]
    /\ emitted = <<>>
    /\ steps_run = <<>>
    /\ calls = <<>>
    /\ polls = 0
    /\ chains = [left |-> 0, active |-> 0]
    /\ raised = NoError
    /\ locks = [u \in UUIDs |-> None]
    /\ xenstore = [u \in UUIDs |-> {}]
    /\ writers = [t \in Writers |-> NoWriter]
    /\ spawners = [t \in Spawners |-> NoSpawner]

\* The operation raises to its caller: no handler is in the way.
RaiseToCaller(error) == raised' = error /\ pc' = "done"

\* ------------------------------------------------------------------ spawn
\* spawn(): builds the step decorator, decorates create_disks_step (the
\* first registered step) and calls _spawn.
spawn ==
    /\ pc = "idle"
    /\ \E osvol \in BOOLEAN :
         op' = [NoOp EXCEPT !.kind = "spawn", !.root_osvol = osvol]
    /\ step_info' = [total |-> 1, current |-> 0]
    /\ pc' = "_spawn"
    /\ UNCHANGED <<instance, hyp, vm_ref, undo_stack, registered, hist, emitted, polls, chains,
                   raised>>
    /\ UNCHANGED <<xenstore_vars, race_vars>>

\* The steps _spawn decorates besides create_disks_step: nine, and the
\* attach_root_disk_step when rescue is set.
SpawnStepsDecorated(rescue) == IF rescue THEN 10 ELSE 9

\* Fault variant of _spawn: the name label is not checked for an existing
\* VM.
_spawn_without_name_check ==
    /\ pc = "_spawn"
    /\ \E enough_free_mem \in BOOLEAN :
         IF ~enough_free_mem
         THEN /\ RaiseToCaller(Error("InsufficientFreeMemory", "_spawn"))
              /\ UNCHANGED step_info
         ELSE /\ step_info' = IF op.counted
                   THEN [step_info EXCEPT
                            !.total = @ + SpawnStepsDecorated(op.rescue)]
                   ELSE step_info
              /\ pc' = "determine_disk_image_type_step"
              /\ raised' = raised
    /\ undo_stack' = <<>>
    /\ registered' = <<>>
    /\ UNCHANGED <<op, instance, hyp, vm_ref, hist, emitted, polls, chains>>
    /\ UNCHANGED <<xenstore_vars, race_vars>>

\* _spawn up to the try block: the name and memory checks, the decoration of
\* the steps, the new UndoManager.
_spawn ==
    /\ pc = "_spawn"
    /\ \E enough_free_mem \in BOOLEAN :
         IF lookup(vms, op.name_label) # None
         THEN /\ RaiseToCaller(Error("InstanceExists", "_spawn"))
              /\ UNCHANGED step_info
         ELSE IF ~enough_free_mem
         THEN /\ RaiseToCaller(Error("InsufficientFreeMemory", "_spawn"))
              /\ UNCHANGED step_info
         ELSE /\ step_info' = IF op.counted
                   THEN [step_info EXCEPT
                            !.total = @ + SpawnStepsDecorated(op.rescue)]
                   ELSE step_info
              /\ pc' = "determine_disk_image_type_step"
              /\ raised' = raised
    /\ undo_stack' = <<>>
    /\ registered' = <<>>
    /\ UNCHANGED <<op, instance, hyp, vm_ref, hist, emitted, polls, chains>>
    /\ UNCHANGED <<xenstore_vars, race_vars>>

\* --------------------------------------------------- the step decorator
\* An exception inside the try block of a pipeline: the handler starts the
\* rollback with the error in flight.
Raise(error) == raised' = error /\ pc' = "rollback"

\* make_step_decorator.inner after f returned: bump_progress adds one to
\* current and writes the progress; the write (an instance_update) may
\* raise.  With null_step_decorator (finish_migration) nothing is counted.
bump_progress(name, next) ==
    /\ steps_run' = Append(steps_run, name)
    /\ IF op.counted
       THEN /\ step_info' = [step_info EXCEPT !.current = @ + 1]
            /\ \E written \in BOOLEAN :
                 IF written
                 THEN /\ emitted' = _update_instance_progress(emitted,
                                       step_info.current + 1, step_info.total)
                      /\ pc' = next
                      /\ raised' = raised
                 ELSE /\ emitted' = emitted
                      /\ Raise(Error("ProgressError", name))
       ELSE /\ UNCHANGED prog
            /\ pc' = next
            /\ raised' = raised

\* The body of a step raised before it changed anything.
StepRaises(name) ==
    /\ Raise(Error("StepError", name))
    /\ UNCHANGED <<prog, steps_run>>

\* ------------------------------------------------------ the spawn pipeline
determine_disk_image_type_step ==
    /\ pc = "determine_disk_image_type_step"
    /\ \/ bump_progress("determine_disk_image_type_step", "create_disks_step")
       \/ StepRaises("determine_disk_image_type_step")
    /\ UNCHANGED <<op, instance, hyp, vm_ref, undo_stack, registered, undo_ran,
                   calls, polls, chains>>
    /\ UNCHANGED <<xenstore_vars, race_vars>>

\* spawn.create_disks_step (get_vdis_for_instance) and
\* finish_migration.create_disks_step (import_all_migrated_disks): the root
\* disk comes into being, then its compensation is registered.
create_disks_step ==
    /\ pc = "create_disks_step"
    /\ \/ /\ vdis' = vdis \cup {"root"}
          /\ calls' = Append(calls, IF op.first_boot
                                    THEN "get_vdis_for_instance"
                                    ELSE "import_all_migrated_disks")
          /\ undo_stack' = undo_with(undo_stack, "undo_create_disks")
          /\ registered' = Append(registered, "undo_create_disks")
          /\ bump_progress("create_disks_step", "create_kernel_ramdisk_step")
       \/ /\ StepRaises("create_disks_step")
          /\ UNCHANGED <<vdis, calls, undo_stack, registered>>
    /\ UNCHANGED <<op, instance, vms, vbds, files, vm_ref, undo_ran,
                   polls, chains>>
    /\ UNCHANGED <<xenstore_vars, race_vars>>

\* vm_utils.create_kernel_and_ramdisk: a kernel file when the instance has a
\* kernel_id, a ramdisk file when it has a ramdisk_id.
create_kernel_and_ramdisk(inst) ==
    {f \in Files : \/ f = "kernel" /\ inst.kernel_id
                   \/ f = "ramdisk" /\ inst.ramdisk_id}

create_kernel_ramdisk_step ==
    /\ pc = "create_kernel_ramdisk_step"
    /\ \/ /\ files' = create_kernel_and_ramdisk(instance)
          /\ calls' = Append(calls, "create_kernel_and_ramdisk")
          /\ undo_stack' = undo_with(undo_stack, "undo_create_kernel_ramdisk")
          /\ registered' = Append(registered, "undo_create_kernel_ramdisk")
          /\ bump_progress("create_kernel_ramdisk_step",
                           "create_vm_record_step")
       \/ /\ StepRaises("create_kernel_ramdisk_step")
          /\ UNCHANGED <<files, calls, undo_stack, registered>>
    /\ UNCHANGED <<op, instance, vms, vdis, vbds, vm_ref, undo_ran,
                   polls, chains>>
    /\ UNCHANGED <<xenstore_vars, race_vars>>

\* _create_vm_record / vm_utils.create_vm: a new, halted VM record under the
\* name label; then its compensation is registered.
create_vm_record_step ==
    /\ pc = "create_vm_record_step"
    /\ \/ /\ vm_ref' = FreshRef(vms)
          /\ vms' = [vms EXCEPT ![FreshRef(vms)] =
                        [name |-> op.name_label, power |-> "Halted",
                         bootlock |-> FALSE]]
          /\ calls' = Append(calls, "VM.create")
          /\ undo_stack' = undo_with(undo_stack, "undo_create_vm")
          /\ registered' = Append(registered, "undo_create_vm")
          /\ bump_progress("create_vm_record_step", "attach_disks_step")
       \/ /\ StepRaises("create_vm_record_step")
          /\ UNCHANGED <<vms, vm_ref, calls, undo_stack, registered>>
    /\ UNCHANGED <<op, instance, vdis, vbds, files, undo_ran, polls, chains>>
    /\ UNCHANGED <<xenstore_vars, race_vars>>

\* attach_disks_step: _attach_disks plugs the root disk, then generates the
\* swap/ephemeral/configdrive disks on the VM; a generate call may raise
\* when the root disk is already attached.  Without first_boot the mapped
\* block devices are attached too.  No compensation is registered.
attach_disks_step ==
    /\ pc = "attach_disks_step"
    /\ \/ /\ vbds' = vbds \cup {<<vm_ref, "root">>, <<vm_ref, "gen">>}
          /\ vdis' = vdis \cup {"gen"}
          /\ calls' = calls \o <<"VBD.create", "generate_disks">> \o
                      (IF op.first_boot THEN <<>>
                       ELSE <<"attach_mapped_block_devices">>)
          /\ bump_progress("attach_disks_step", "inject_instance_data_step")
       \/ /\ vbds' = vbds \cup {<<vm_ref, "root">>}
          /\ calls' = Append(calls, "VBD.create")
          /\ StepRaises("attach_disks_step")
          /\ UNCHANGED vdis
       \/ /\ StepRaises("attach_disks_step")
          /\ UNCHANGED <<vdis, vbds, calls>>
    /\ UNCHANGED <<op, instance, vms, files, vm_ref, undo_stack, registered, undo_ran,
                   polls, chains>>
    /\ UNCHANGED <<xenstore_vars, race_vars>>

\* Fault variant of inject_instance_data_step: the hostname is injected
\* whether or not this is the first boot.
inject_instance_data_step_always_hostname ==
    /\ pc = "inject_instance_data_step"
    /\ \/ /\ calls' = calls \o <<"inject_instance_metadata",
                                 "inject_auto_disk_config",
                                 "inject_hostname", "inject_network_info">>
          /\ bump_progress("inject_instance_data_step", "setup_network_step")
       \/ /\ StepRaises("inject_instance_data_step")
          /\ UNCHANGED calls
    /\ UNCHANGED <<op, instance, hyp, vm_ref, undo_stack, registered, undo_ran,
                   polls, chains>>
    /\ UNCHANGED <<xenstore_vars, race_vars>>

\* inject_instance_data_step: xenstore data of the VM; the hostname only on
\* first boot.
inject_instance_data_step ==
    /\ pc = "inject_instance_data_step"
    /\ \/ /\ calls' = calls \o <<"inject_instance_metadata",
                                 "inject_auto_disk_config">> \o
                      (IF op.first_boot THEN <<"inject_hostname">> ELSE <<>>)
                      \o <<"inject_network_info">>
          /\ bump_progress("inject_instance_data_step", "setup_network_step")
       \/ /\ StepRaises("inject_instance_data_step")
          /\ UNCHANGED calls
    /\ UNCHANGED <<op, instance, hyp, vm_ref, undo_stack, registered, undo_ran,
                   polls, chains>>
    /\ UNCHANGED <<xenstore_vars, race_vars>>

\* Fault variant of setup_network_step: the pipeline goes on to the boot
\* also for a rescue.
setup_network_step_then_boot ==
    /\ pc = "setup_network_step"
    /\ \/ /\ calls' = calls \o <<"create_vifs", "prepare_instance_filter">>
          /\ bump_progress("setup_network_step", "boot_instance_step")
       \/ /\ StepRaises("setup_network_step")
          /\ UNCHANGED calls
    /\ UNCHANGED <<op, instance, hyp, vm_ref, undo_stack, registered, undo_ran,
                   polls, chains>>
    /\ UNCHANGED <<xenstore_vars, race_vars>>

\* setup_network_step: _create_vifs and _prepare_instance_filter; then, in
\* the try block, attach_root_disk_step when rescue is set, else the boot.
setup_network_step ==
    /\ pc = "setup_network_step"
    /\ \/ /\ calls' = calls \o <<"create_vifs", "prepare_instance_filter">>
          /\ bump_progress("setup_network_step",
                           IF op.rescue THEN "attach_root_disk_step"
                           ELSE "boot_instance_step")
       \/ /\ StepRaises("setup_network_step")
          /\ UNCHANGED calls
    /\ UNCHANGED <<op, instance, hyp, vm_ref, undo_stack, registered, undo_ran,
                   polls, chains>>
    /\ UNCHANGED <<xenstore_vars, race_vars>>

\* _find_root_vdi_ref of the original VM (None without a VM).
_find_root_vdi_ref(ref) ==
    IF ref # None /\ <<ref, "orig_root">> \in vbds THEN "orig_root"
    ELSE "none"

\* attach_root_disk_step (rescue): _attach_orig_disk_for_rescue plugs the
\* root disk of the original VM into the rescue VM, then registers the
\* compensation that unplugs it.
attach_root_disk_step ==
    /\ pc = "attach_root_disk_step"
    /\ \/ /\ _find_root_vdi_ref(lookup(vms, Name)) # "none"
          /\ vbds' = vbds \cup
                     {<<vm_ref, _find_root_vdi_ref(lookup(vms, Name))>>}
          /\ calls' = Append(calls, "VBD.create")
          /\ undo_stack' = undo_with(undo_stack, "undo_attach_root_disk")
          /\ registered' = Append(registered, "undo_attach_root_disk")
          /\ bump_progress("attach_root_disk_step", "boot_instance_step")
       \/ /\ StepRaises("attach_root_disk_step")
          /\ UNCHANGED <<vbds, calls, undo_stack, registered>>
    /\ UNCHANGED <<op, instance, vms, vdis, files, vm_ref, undo_ran,
                   polls, chains>>
    /\ UNCHANGED <<xenstore_vars, race_vars>>

\* _start: VM.start_on may raise; when it returns the VM is running, unless
\* the guest went down again before the first poll.
boot_instance_step ==
    /\ pc = "boot_instance_step"
    /\ IF op.power_on
       THEN \/ /\ \E power \in {"Running", "Halted"} :
                    vms' = [vms EXCEPT ![vm_ref].power = power]
               /\ calls' = Append(calls, "VM.start_on")
               /\ pc' = "_wait_for_instance_to_start"
               /\ polls' = 0
               /\ UNCHANGED <<prog, steps_run, raised>>
            \/ /\ StepRaises("boot_instance_step")
               /\ UNCHANGED <<vms, calls, polls>>
       ELSE /\ bump_progress("boot_instance_step",
                             "configure_booted_instance_step")
            /\ UNCHANGED <<vms, calls, polls>>
    /\ UNCHANGED <<op, instance, vdis, vbds, files, vm_ref, undo_stack, registered,
                   undo_ran, chains>>
    /\ UNCHANGED <<xenstore_vars, race_vars>>

\* Fault variant of _wait_for_instance_to_start: the power state is not
\* polled, the step completes at once.
_wait_for_instance_to_start_no_poll ==
    /\ pc = "_wait_for_instance_to_start"
    /\ bump_progress("boot_instance_step", "configure_booted_instance_step")
    /\ UNCHANGED <<op, instance, hyp, vm_ref, undo_stack, registered, undo_ran,
                   calls, polls, chains>>
    /\ UNCHANGED <<xenstore_vars, race_vars>>

\* Fault variant of _wait_for_instance_to_start: a VM that is not running
\* when the timeout expires is an error of the boot step.
_wait_for_instance_to_start_raises_on_timeout ==
    /\ pc = "_wait_for_instance_to_start"
    /\ IF polls < MaxPolls /\ vms[vm_ref].power # "Running"
       THEN /\ polls' = polls + 1
            /\ UNCHANGED <<pc, prog, steps_run, raised>>
       ELSE IF vms[vm_ref].power # "Running"
       THEN /\ StepRaises("boot_instance_step")
            /\ UNCHANGED polls
       ELSE /\ bump_progress("boot_instance_step",
                             "configure_booted_instance_step")
            /\ UNCHANGED polls
    /\ UNCHANGED <<op, instance, hyp, vm_ref, undo_stack, registered, undo_ran, calls,
                   chains>>
    /\ UNCHANGED <<xenstore_vars, race_vars>>

\* _wait_for_instance_to_start: poll the power state every half second
\* until it is RUNNING or running_timeout has expired; on the timeout the
\* loop just ends.  Then the step decorator bumps the progress.
_wait_for_instance_to_start ==
    /\ pc = "_wait_for_instance_to_start"
    /\ IF polls < MaxPolls /\ vms[vm_ref].power # "Running"
       THEN /\ polls' = polls + 1
            /\ UNCHANGED <<pc, prog, steps_run, raised>>
       ELSE /\ bump_progress("boot_instance_step",
                             "configure_booted_instance_step")
            /\ UNCHANGED polls
    /\ UNCHANGED <<op, instance, hyp, vm_ref, undo_stack, registered, undo_ran, calls,
                   chains>>
    /\ UNCHANGED <<xenstore_vars, race_vars>>

\* The guest comes up while _wait_for_instance_to_start sleeps.
VmReachesRunning ==
    /\ pc = "_wait_for_instance_to_start"
    /\ polls < MaxPolls
    /\ vms[vm_ref].power # "Running"
    /\ vms' = [vms EXCEPT ![vm_ref].power = "Running"]
    /\ UNCHANGED <<pc, op, instance, vdis, vbds, files, vm_ref, undo_stack, registered,
                   hist, prog, polls, chains, raised>>
    /\ UNCHANGED <<xenstore_vars, race_vars>>

\* configure_booted_instance_step: the agent and the hostname removal only
\* on first boot.
configure_booted_instance_step ==
    /\ pc = "configure_booted_instance_step"
    /\ \/ /\ calls' = calls \o
                      (IF op.first_boot
                       THEN <<"configure_new_instance_with_agent",
                              "remove_hostname">>
                       ELSE <<>>)
          /\ bump_progress("configure_booted_instance_step",
                           "apply_security_group_filters_step")
       \/ /\ StepRaises("configure_booted_instance_step")
          /\ UNCHANGED calls
    /\ UNCHANGED <<op, instance, hyp, vm_ref, undo_stack, registered, undo_ran, polls, chains>>
    /\ UNCHANGED <<xenstore_vars, race_vars>>

\* apply_security_group_filters_step, the last step; after it _spawn calls
\* completed_callback when one was passed (finish_migration), else returns.
apply_security_group_filters_step ==
    /\ pc = "apply_security_group_filters_step"
    /\ \/ /\ calls' = Append(calls, "apply_instance_filter")
          /\ bump_progress("apply_security_group_filters_step",
                           IF op.kind = "finish_migration"
                           THEN "completed_callback" ELSE "done")
       \/ /\ StepRaises("apply_security_group_filters_step")
          /\ UNCHANGED calls
    /\ UNCHANGED <<op, instance, hyp, vm_ref, undo_stack, registered, undo_ran, polls, chains>>
    /\ UNCHANGED <<xenstore_vars, race_vars>>

\* finish_migration.completed_callback, called inside the try block of
\* _spawn: progress step 5 of RESIZE_TOTAL_STEPS.
completed_callback ==
    /\ pc = "completed_callback"
    /\ \/ /\ emitted' = _update_instance_progress(emitted, 5,
                                                  RESIZE_TOTAL_STEPS)
          /\ pc' = "done"
          /\ raised' = raised
       \/ /\ Raise(Error("ProgressError", "completed_callback"))
          /\ UNCHANGED emitted
    /\ UNCHANGED <<op, instance, hyp, vm_ref, undo_stack, registered, hist, step_info,
                   polls, chains>>
    /\ UNCHANGED <<xenstore_vars, race_vars>>

\* ---------------------------------------------------------------- destroy
\* The hypervisor state as a value, for the operators that compute the
\* effect of a whole call chain.
HypState == [vms |-> vms, vdis |-> vdis, vbds |-> vbds, files |-> files]

\* A VBD that carries other_config['osvol']: the root disk of a spawn that
\* boots from a volume.
IsOsvol(vbd) == vbd[2] = "root" /\ op.root_osvol

\* vm_utils.lookup_vm_vdis: the VDIs plugged into the VM.
lookup_vm_vdis(st, ref) == {d \in VDIs : <<ref, d>> \in st.vbds /\ d \in st.vdis}

\* The ways the remote calls of _destroy can go wrong.
DestroyEnvs == {"ok", "detach_raises", "vdi_fails", "vm_fails"}

\* Fault variant of KernelRamdiskUnacceptable: an instance with a kernel or
\* a ramdisk is refused, also when it has both.
KernelRamdiskEither(inst) == inst.kernel_id \/ inst.ramdisk_id

\* _destroy_kernel_ramdisk raises InstanceUnacceptable for an instance with
\* exactly one of kernel_id and ramdisk_id.
KernelRamdiskUnacceptable(inst) == inst.kernel_id # inst.ramdisk_id

\* Fault variant of _destroy: the VM record is removed first, before the
\* shutdown and the teardown of the disks.
_destroy_record_first(st, ref, destroy_disks, env) ==
    IF ref = None
    THEN [st |-> st, calls |-> <<>>, outcome |-> "ok"]
    ELSE
    LET halted   == [st EXCEPT !.vms[ref].power = "Halted"]
        detached == [halted EXCEPT
                        !.vbds = {b \in @ : ~(b[1] = ref /\ IsOsvol(b))}]
        doomed   == IF env = "vdi_fails" THEN {}
                    ELSE lookup_vm_vdis(detached, ref)
        diskless == [detached EXCEPT
                        !.vdis = @ \ doomed,
                        !.vbds = {b \in @ : b[2] \notin doomed}]
        fileless == IF instance.kernel_id /\ instance.ramdisk_id
                       /\ ref = vm_ref
                    THEN [diskless EXCEPT !.files = {}]
                    ELSE diskless
        mid      == IF destroy_disks THEN fileless ELSE halted
        midcalls == IF destroy_disks
                    THEN <<"VM.hard_shutdown", "detach_all", "VDI.destroy",
                           "destroy_kernel_ramdisk">>
                    ELSE <<"VM.hard_shutdown">>
        gone     == IF env = "vm_fails" THEN mid
                    ELSE [mid EXCEPT
                             !.vms[ref] = NoVM,
                             !.vbds = {b \in @ : b[1] # ref}]
    IN  IF destroy_disks /\ env = "detach_raises"
        THEN [st |-> halted,
              calls |-> <<"VM.hard_shutdown", "detach_all">>,
              outcome |-> "raised"]
        ELSE IF destroy_disks /\ KernelRamdiskUnacceptable(instance)
        THEN [st |-> diskless,
              calls |-> <<"VM.hard_shutdown", "detach_all", "VDI.destroy">>,
              outcome |-> "InstanceUnacceptable"]
        ELSE [st |-> gone,
              calls |-> <<"VM.destroy">> \o midcalls \o
                        <<"unplug_vifs", "unfilter_instance">>,
              outcome |-> IF env = "ok" THEN "ok" ELSE "swallowed"]

\* _destroy(instance, vm_ref, network_info, destroy_disks) on state st:
\*   1. hard_shutdown_vm (its result is not looked at)
\*   2. with destroy_disks: detach_all, _destroy_vdis (a StorageError of a
\*      VDI.destroy is logged), _destroy_kernel_ramdisk
\*   3. vm_utils.destroy_vm (a failure of VM.destroy is logged)
\*   4. unplug_vifs, unfilter_instance
\* The result is the state left, the calls made and how the call ended.
_destroy(st, ref, destroy_disks, env) ==
    IF ref = None
    THEN [st |-> st, calls |-> <<>>, outcome |-> "ok"]
    ELSE
    LET halted   == [st EXCEPT !.vms[ref].power = "Halted"]
        detached == [halted EXCEPT
                        !.vbds = {b \in @ : ~(b[1] = ref /\ IsOsvol(b))}]
        doomed   == IF env = "vdi_fails" THEN {}
                    ELSE lookup_vm_vdis(detached, ref)
        diskless == [detached EXCEPT
                        !.vdis = @ \ doomed,
                        !.vbds = {b \in @ : b[2] \notin doomed}]
        fileless == IF instance.kernel_id /\ instance.ramdisk_id
                       /\ ref = vm_ref
                    THEN [diskless EXCEPT !.files = {}]
                    ELSE diskless
        mid      == IF destroy_disks THEN fileless ELSE halted
        midcalls == IF destroy_disks
                    THEN <<"VM.hard_shutdown", "detach_all", "VDI.destroy",
                           "destroy_kernel_ramdisk">>
                    ELSE <<"VM.hard_shutdown">>
        gone     == IF env = "vm_fails" THEN mid
                    ELSE [mid EXCEPT
                             !.vms[ref] = NoVM,
                             !.vbds = {b \in @ : b[1] # ref}]
    IN  IF destroy_disks /\ env = "detach_raises"
        THEN [st |-> halted,
              calls |-> <<"VM.hard_shutdown", "detach_all">>,
              outcome |-> "raised"]
        ELSE IF destroy_disks /\ KernelRamdiskUnacceptable(instance)
        THEN [st |-> diskless,
              calls |-> <<"VM.hard_shutdown", "detach_all", "VDI.destroy">>,
              outcome |-> "InstanceUnacceptable"]
        ELSE [st |-> gone,
              calls |-> midcalls \o <<"VM.destroy", "unplug_vifs",
                                      "unfilter_instance">>,
              outcome |-> IF env = "ok" THEN "ok" ELSE "swallowed"]

\* ----------------------------------------------------------- the rollback
\* The compensation ended by raising (a failure it logged itself is none).
UndoRaised(outcome) == outcome \notin {"ok", "swallowed"}

\* One compensation was invoked by UndoManager._rollback.
Compensated(name, outcome) ==
    /\ undo_ran' = Append(undo_ran, [undo |-> name, outcome |-> outcome])
    /\ undo_stack' = AfterUndo(undo_stack, UndoRaised(outcome))
    /\ raised' = ErrorAfterUndo(raised, name, UndoRaised(outcome))
    /\ UNCHANGED registered

InRollback(name) ==
    /\ pc = "rollback"
    /\ undo_stack # <<>>
    /\ NextUndo(undo_stack) = name

\* The disks undo_create_disks hands to safe_destroy_vdis: in spawn those
\* not marked osvol, in finish_migration the root and the ephemerals.
UndoCreateDisksRefs ==
    IF op.first_boot /\ op.root_osvol THEN {} ELSE {"root"}

\* undo_create_disks: vm_utils.safe_destroy_vdis logs a destroy that fails.
undo_create_disks ==
    /\ InRollback("undo_create_disks")
    /\ \E destroyed \in BOOLEAN :
         /\ vdis' = IF destroyed THEN vdis \ UndoCreateDisksRefs ELSE vdis
         /\ vbds' = IF destroyed
                    THEN {b \in vbds : b[2] \notin UndoCreateDisksRefs}
                    ELSE vbds
         /\ Compensated("undo_create_disks",
                        IF destroyed THEN "ok" ELSE "swallowed")
    /\ calls' = Append(calls, "safe_destroy_vdis")
    /\ UNCHANGED <<pc, op, instance, vms, files, vm_ref, steps_run, prog,
                   polls, chains>>
    /\ UNCHANGED <<xenstore_vars, race_vars>>

\* undo_create_kernel_ramdisk: vm_utils.destroy_kernel_ramdisk removes the
\* files, or raises.
undo_create_kernel_ramdisk ==
    /\ InRollback("undo_create_kernel_ramdisk")
    /\ \E removed \in BOOLEAN :
         /\ files' = IF removed THEN {} ELSE files
         /\ Compensated("undo_create_kernel_ramdisk",
                        IF removed THEN "ok" ELSE "raised")
    /\ calls' = Append(calls, "destroy_kernel_ramdisk")
    /\ UNCHANGED <<pc, op, instance, vms, vdis, vbds, vm_ref, steps_run,
                   prog, polls, chains>>
    /\ UNCHANGED <<xenstore_vars, race_vars>>

\* undo_create_vm: self._destroy(instance, vm_ref, network_info).
undo_create_vm ==
    /\ InRollback("undo_create_vm")
    /\ \E env \in DestroyEnvs :
         LET d == _destroy(HypState, vm_ref, TRUE, env)
         IN  /\ vms' = d.st.vms
             /\ vdis' = d.st.vdis
             /\ vbds' = d.st.vbds
             /\ files' = d.st.files
             /\ calls' = calls \o d.calls
             /\ Compensated("undo_create_vm", d.outcome)
    /\ UNCHANGED <<pc, op, instance, vm_ref, steps_run, prog, polls, chains>>
    /\ UNCHANGED <<xenstore_vars, race_vars>>

\* undo_attach_root_disk: vm_utils.destroy_vbd unplugs the original root
\* disk from the rescue VM (the VDI stays), or raises.
undo_attach_root_disk ==
    /\ InRollback("undo_attach_root_disk")
    /\ \E unplugged \in BOOLEAN :
         /\ vbds' = IF unplugged THEN vbds \ {<<vm_ref, "orig_root">>}
                    ELSE vbds
         /\ Compensated("undo_attach_root_disk",
                        IF unplugged THEN "ok" ELSE "raised")
    /\ calls' = Append(calls, "VBD.destroy")
    /\ UNCHANGED <<pc, op, instance, vms, vdis, files, vm_ref, steps_run,
                   prog, polls, chains>>
    /\ UNCHANGED <<xenstore_vars, race_vars>>

\* _spawn, except Exception: undo_mgr.rollback_and_reraise.  With the ledger
\* unwound the error goes to the caller.
SpawnKinds == {"spawn", "rescue", "finish_migration"}

\* Fault variant of the except clause of _spawn: the error is raised again
\* without the compensations having run.
spawn_reraise_without_rollback ==
    /\ pc = "rollback"
    /\ op.kind \in SpawnKinds
    /\ raised' = rollback_and_reraise(raised)
    /\ pc' = "done"
    /\ UNCHANGED <<op, instance, hyp, vm_ref, undo_stack, registered, hist,
                   prog, polls, chains>>
    /\ UNCHANGED <<xenstore_vars, race_vars>>

spawn_rollback_and_reraise ==
    /\ pc = "rollback"
    /\ op.kind \in SpawnKinds
    /\ undo_stack = <<>>
    /\ raised' = rollback_and_reraise(raised)
    /\ pc' = "done"
    /\ UNCHANGED <<op, instance, hyp, vm_ref, undo_stack, registered, hist, prog, polls, chains>>
    /\ UNCHANGED <<xenstore_vars, race_vars>>

\* ------------------------------------------- rescue and finish_migration
\* Fault variant of _acquire_bootlock: the blocked operation is not set.
_acquire_bootlock_not_set(vs, vm) == vs

\* _acquire_bootlock: VM.set_blocked_operations {"start": ""}.
_acquire_bootlock(vs, vm) == [vs EXCEPT ![vm].bootlock = TRUE]

\* _release_bootlock: VM.remove_from_blocked_operations "start".
_release_bootlock(vs, vm) == [vs EXCEPT ![vm].bootlock = FALSE]

\* Fault variant of rescue: the original VM is shut down before the check
\* for a rescue VM that already exists.
rescue_shutdown_before_check ==
    /\ pc = "idle"
    /\ lookup(vms, RescueName) # None
    /\ lookup(vms, Name) # None
    /\ vms' = [vms EXCEPT ![lookup(vms, Name)].power = "Halted"]
    /\ calls' = <<"VM.hard_shutdown">>
    /\ RaiseToCaller(Error("RuntimeError", "rescue"))
    /\ UNCHANGED <<op, step_info, instance, vdis, vbds, files, vm_ref,
                   undo_stack, registered, undo_ran, steps_run, emitted,
                   polls, chains>>
    /\ UNCHANGED <<xenstore_vars, race_vars>>

\* rescue(): refuse when a rescue VM exists; else look the VM up, shut it
\* down (hard_shutdown_vm reports a failure by its result, which is not
\* looked at), set the bootlock and spawn the rescue VM.
rescue ==
    /\ pc = "idle"
    /\ IF lookup(vms, RescueName) # None
       THEN /\ RaiseToCaller(Error("RuntimeError", "rescue"))
            /\ UNCHANGED <<op, vms, calls, step_info>>
       ELSE IF lookup(vms, Name) = None
       THEN /\ RaiseToCaller(Error("InstanceNotFound", "rescue"))
            /\ UNCHANGED <<op, vms, calls, step_info>>
       ELSE LET orig == lookup(vms, Name) IN
            \E halted \in BOOLEAN, locked \in BOOLEAN :
              LET down == IF halted
                          THEN [vms EXCEPT ![orig].power = "Halted"]
                          ELSE vms
              IN  /\ op' = [NoOp EXCEPT !.kind = "rescue",
                                        !.name_label = RescueName,
                                        !.rescue = TRUE,
                                        !.was_power = vms[orig].power]
                  /\ IF locked
                     THEN /\ vms' = _acquire_bootlock(down, orig)
                          /\ step_info' = [total |-> 1, current |-> 0]
                          /\ pc' = "_spawn"
                          /\ raised' = raised
                     ELSE /\ vms' = down
                          /\ RaiseToCaller(Error("XenAPIFailure", "rescue"))
                          /\ UNCHANGED step_info
                  /\ calls' = <<"VM.hard_shutdown",
                                "VM.set_blocked_operations">>
    /\ UNCHANGED <<instance, vdis, vbds, files, vm_ref, undo_stack, registered,
                   undo_ran, steps_run, emitted, polls, chains>>
    /\ UNCHANGED <<xenstore_vars, race_vars>>

\* finish_migration(): _spawn with null_step_decorator, the
\* create_disks_step that imports the migrated disks, first_boot False and
\* completed_callback.
finish_migration ==
    /\ pc = "idle"
    /\ \E power_on \in BOOLEAN :
         op' = [NoOp EXCEPT !.kind = "finish_migration",
                            !.first_boot = FALSE,
                            !.counted = FALSE,
                            !.power_on = power_on]
    /\ pc' = "_spawn"
    /\ UNCHANGED <<instance, hyp, vm_ref, undo_stack, registered, hist, prog, polls, chains,
                   raised>>
    /\ UNCHANGED <<xenstore_vars, race_vars>>

\* ------------------------------------------ restore of the original VM
\* The ways the remote calls of _restore_orig_vm_and_cleanup_orphan can go
\* wrong: those of _destroy, the rename and the start.
RestoreEnvs == DestroyEnvs \cup {"rename_raises", "start_raises"}

\* Fault variant of _restore_orig_vm_and_cleanup_orphan: the -orig VM is
\* started under its -orig name, the rename is left out.
_restore_orig_vm_and_cleanup_orphan_no_rename(st, power_on, env) ==
    LET orig_ref == lookup(st.vms, OrigName)
        new_ref  == lookup(st.vms, Name)
        ref      == IF orig_ref # None THEN orig_ref ELSE new_ref
    IN  IF ref = None
        THEN [st |-> st, calls |-> <<>>, outcome |-> "raised"]
        ELSE IF power_on /\ is_vm_shutdown(st.vms, ref)
        THEN [st |-> [st EXCEPT !.vms[ref].power = "Running"],
              calls |-> <<"VM.start_on">>, outcome |-> "ok"]
        ELSE [st |-> st, calls |-> <<>>, outcome |-> "ok"]

\* _restore_orig_vm_and_cleanup_orphan(instance, block_device_info,
\* power_on) on state st: find name-orig; if it exists destroy a VM that
\* holds the name, take the suffix off and attach the mapped block devices;
\* else fall back on the VM that holds the name; then, with power_on, start
\* the VM if it is shut down.  VM.start_on is refused under a bootlock.
_restore_orig_vm_and_cleanup_orphan(st, power_on, env) ==
    LET orig_ref  == lookup(st.vms, OrigName)
        new_ref   == lookup(st.vms, Name)
        d         == IF orig_ref # None
                     THEN _destroy(st, new_ref, TRUE,
                                   IF env \in DestroyEnvs THEN env ELSE "ok")
                     ELSE [st |-> st, calls |-> <<>>, outcome |-> "ok"]
        renamed   == [d.st EXCEPT !.vms[orig_ref].name = Name]
        named     == IF orig_ref # None THEN renamed ELSE st
        ref       == IF orig_ref # None THEN orig_ref ELSE new_ref
        namecalls == IF orig_ref # None
                     THEN d.calls \o <<"VM.set_name_label",
                                       "attach_mapped_block_devices">>
                     ELSE <<>>
    IN  IF orig_ref # None /\ d.outcome \in {"raised", "InstanceUnacceptable"}
        THEN [st |-> d.st, calls |-> d.calls, outcome |-> "raised"]
        ELSE IF orig_ref # None /\ env = "rename_raises"
        THEN [st |-> d.st, calls |-> d.calls, outcome |-> "raised"]
        ELSE IF ref = None
        THEN [st |-> st, calls |-> <<>>, outcome |-> "raised"]
        ELSE IF power_on /\ is_vm_shutdown(named.vms, ref)
        THEN IF env = "start_raises" \/ named.vms[ref].bootlock
             THEN [st |-> named, calls |-> namecalls, outcome |-> "raised"]
             ELSE [st |-> [named EXCEPT !.vms[ref].power = "Running"],
                   calls |-> Append(namecalls, "VM.start_on"),
                   outcome |-> "ok"]
        ELSE [st |-> named, calls |-> namecalls, outcome |-> "ok"]

\* ------------------------------------------------------------ resize down
\* Fault variant of _resize_ensure_vm_is_shutdown: the result of the hard
\* shutdown is not looked at, so no ResizeError is raised.
_resize_ensure_vm_is_shutdown_unchecked(vs, ref, shut) ==
    IF is_vm_shutdown(vs, ref)
    THEN [vms |-> vs, ok |-> TRUE, calls |-> <<>>]
    ELSE IF shut
    THEN [vms |-> [vs EXCEPT ![ref].power = "Halted"], ok |-> TRUE,
          calls |-> <<"VM.shutdown">>]
    ELSE [vms |-> vs, ok |-> TRUE, calls |-> <<"VM.shutdown">>]

\* _resize_ensure_vm_is_shutdown: nothing to do for a VM that is shut down;
\* else a clean shutdown, on its failure a hard shutdown, on the failure of
\* both ResizeError.  shut says whether one of the two shutdowns worked.
_resize_ensure_vm_is_shutdown(vs, ref, shut) ==
    IF is_vm_shutdown(vs, ref)
    THEN [vms |-> vs, ok |-> TRUE, calls |-> <<>>]
    ELSE IF shut
    THEN [vms |-> [vs EXCEPT ![ref].power = "Halted"], ok |-> TRUE,
          calls |-> <<"VM.shutdown">>]
    ELSE [vms |-> vs, ok |-> FALSE, calls |-> <<"VM.shutdown">>]

\* _apply_orig_vm_name_label: the VM gets the name label name-orig.
_apply_orig_vm_name_label(vs, ref) == [vs EXCEPT ![ref].name = OrigName]

fake_step_to_match_resizing_up ==
    /\ pc = "fake_step_to_match_resizing_up"
    /\ bump_progress("fake_step_to_match_resizing_up",
                     "rename_and_power_off_vm")
    /\ UNCHANGED <<op, instance, hyp, vm_ref, undo_stack, registered, undo_ran, calls,
                   polls, chains>>
    /\ UNCHANGED <<xenstore_vars, race_vars>>

\* rename_and_power_off_vm: shut the VM down, rename it to name-orig, and
\* only then register restore_orig_vm.
rename_and_power_off_vm ==
    /\ pc = "rename_and_power_off_vm"
    /\ \E shut \in BOOLEAN, renamed \in BOOLEAN :
         LET s == _resize_ensure_vm_is_shutdown(vms, vm_ref, shut) IN
         IF ~s.ok
         THEN /\ Raise(Error("ResizeError", "rename_and_power_off_vm"))
              /\ calls' = calls \o s.calls
              /\ UNCHANGED <<vms, undo_stack, registered, prog, steps_run>>
         ELSE IF ~renamed
         THEN /\ vms' = s.vms
              /\ calls' = calls \o s.calls \o <<"VM.set_name_label">>
              /\ StepRaises("rename_and_power_off_vm")
              /\ UNCHANGED <<undo_stack, registered>>
         ELSE /\ vms' = _apply_orig_vm_name_label(s.vms, vm_ref)
              /\ calls' = calls \o s.calls \o <<"VM.set_name_label">>
              /\ undo_stack' = undo_with(undo_stack, "restore_orig_vm")
              /\ registered' = Append(registered, "restore_orig_vm")
              /\ bump_progress("rename_and_power_off_vm",
                               "create_copy_vdi_and_resize")
    /\ UNCHANGED <<op, instance, vdis, vbds, files, vm_ref, undo_ran, polls, chains>>
    /\ UNCHANGED <<xenstore_vars, race_vars>>

\* get_vdi_for_vm_safely, then create_copy_vdi_and_resize: vm_utils.
\* resize_disk makes the resized copy of the root disk; then
\* cleanup_vdi_copy is registered.
create_copy_vdi_and_resize ==
    /\ pc = "create_copy_vdi_and_resize"
    /\ \/ /\ vdis' = vdis \cup {"copy"}
          /\ calls' = Append(calls, "resize_disk")
          /\ undo_stack' = undo_with(undo_stack, "cleanup_vdi_copy")
          /\ registered' = Append(registered, "cleanup_vdi_copy")
          /\ bump_progress("create_copy_vdi_and_resize",
                           "transfer_vhd_to_dest")
       \/ /\ StepRaises("create_copy_vdi_and_resize")
          /\ UNCHANGED <<vdis, calls, undo_stack, registered>>
       \/ /\ Raise(Error("StepError", "get_vdi_for_vm_safely"))
          /\ UNCHANGED <<vdis, calls, undo_stack, registered, prog, steps_run>>
    /\ UNCHANGED <<op, instance, vms, vbds, files, vm_ref, undo_ran, polls, chains>>
    /\ UNCHANGED <<xenstore_vars, race_vars>>

\* transfer_vhd_to_dest: migrate_vhd, then destroy_vdi of the copy; either
\* may raise.
transfer_vhd_to_dest ==
    /\ pc = "transfer_vhd_to_dest"
    /\ \/ /\ vdis' = vdis \ {"copy"}
          /\ calls' = calls \o <<"migrate_vhd", "VDI.destroy">>
          /\ bump_progress("transfer_vhd_to_dest",
                           "_detach_block_devices_from_orig_vm")
       \/ /\ calls' = calls \o <<"migrate_vhd", "VDI.destroy">>
          /\ StepRaises("transfer_vhd_to_dest")
          /\ UNCHANGED vdis
       \/ /\ calls' = Append(calls, "migrate_vhd")
          /\ StepRaises("transfer_vhd_to_dest")
          /\ UNCHANGED vdis
    /\ UNCHANGED <<op, instance, vms, vbds, files, vm_ref, undo_stack, registered,
                   undo_ran, polls, chains>>
    /\ UNCHANGED <<xenstore_vars, race_vars>>

\* restore_orig_vm: self._restore_orig_vm_and_cleanup_orphan(instance), with
\* the defaults block_device_info=None and power_on=True.
restore_orig_vm ==
    /\ InRollback("restore_orig_vm")
    /\ \E env \in RestoreEnvs :
         LET r == _restore_orig_vm_and_cleanup_orphan(HypState, TRUE, env)
         IN  /\ vms' = r.st.vms
             /\ vdis' = r.st.vdis
             /\ vbds' = r.st.vbds
             /\ files' = r.st.files
             /\ calls' = calls \o r.calls
             /\ Compensated("restore_orig_vm", r.outcome)
    /\ UNCHANGED <<pc, op, instance, vm_ref, steps_run, prog, polls, chains>>
    /\ UNCHANGED <<xenstore_vars, race_vars>>

\* cleanup_vdi_copy: vm_utils.destroy_vdi(new_vdi_ref); it raises when the
\* call fails, as it does for a VDI that is gone.
cleanup_vdi_copy ==
    /\ InRollback("cleanup_vdi_copy")
    /\ \E destroyed \in BOOLEAN :
         IF destroyed /\ "copy" \in vdis
         THEN /\ vdis' = vdis \ {"copy"}
              /\ Compensated("cleanup_vdi_copy", "ok")
         ELSE /\ vdis' = vdis
              /\ Compensated("cleanup_vdi_copy", "raised")
    /\ calls' = Append(calls, "VDI.destroy")
    /\ UNCHANGED <<pc, op, instance, vms, vbds, files, vm_ref, steps_run,
                   prog, polls, chains>>
    /\ UNCHANGED <<xenstore_vars, race_vars>>

\* Fault variant of the except clause of _migrate_disk_resizing_down: the
\* fault is raised while compensations are still on the ledger.
resize_down_reraise_mid_rollback ==
    /\ pc = "rollback"
    /\ op.kind = "resize_down"
    /\ raised' = InstanceFaultRollback(raised)
    /\ pc' = "done"
    /\ UNCHANGED <<op, instance, hyp, vm_ref, undo_stack, registered, hist,
                   prog, polls, chains>>
    /\ UNCHANGED <<xenstore_vars, race_vars>>

\* _migrate_disk_resizing_down, except Exception as error: after
\* undo_mgr._rollback() it raises InstanceFaultRollback(error).
resize_down_reraise ==
    /\ pc = "rollback"
    /\ op.kind = "resize_down"
    /\ undo_stack = <<>>
    /\ raised' = InstanceFaultRollback(raised)
    /\ pc' = "done"
    /\ UNCHANGED <<op, instance, hyp, vm_ref, undo_stack, registered, hist, prog, polls, chains>>
    /\ UNCHANGED <<xenstore_vars, race_vars>>

\* -------------------------------------------------------------- resize up
\* _migrate_disk_resizing_up, before the try block: the VM is renamed to
\* name-orig.
resize_up_apply_orig_vm_name_label ==
    /\ pc = "resize_up_apply_orig_vm_name_label"
    /\ \/ /\ vms' = _apply_orig_vm_name_label(vms, vm_ref)
          /\ pc' = "fake_step_to_show_snapshot_complete"
          /\ raised' = raised
       \/ /\ RaiseToCaller(Error("XenAPIFailure", "_apply_orig_vm_name_label"))
          /\ UNCHANGED vms
    /\ calls' = Append(calls, "VM.set_name_label")
    /\ UNCHANGED <<op, instance, vdis, vbds, files, vm_ref, undo_stack, registered,
                   undo_ran, steps_run, prog, polls, chains>>
    /\ UNCHANGED <<xenstore_vars, race_vars>>

\* An exception inside the try block of _migrate_disk_resizing_up.
RaiseInResizeUp(error) == raised' = error /\ pc' = "resize_up_except"

\* The step decorator inside _migrate_disk_resizing_up: as bump_progress,
\* with the handler of that function.
bump_progress_up(name, next) ==
    /\ steps_run' = Append(steps_run, name)
    /\ step_info' = [step_info EXCEPT !.current = @ + 1]
    /\ \E written \in BOOLEAN :
         IF written
         THEN /\ emitted' = _update_instance_progress(emitted,
                               step_info.current + 1, step_info.total)
              /\ pc' = next
              /\ raised' = raised
         ELSE /\ emitted' = emitted
              /\ RaiseInResizeUp(Error("ProgressError", name))

StepRaisesUp(name) ==
    /\ RaiseInResizeUp(Error("StepError", name))
    /\ UNCHANGED <<prog, steps_run>>

\* snapshot_attached_here of the root disk, then
\* fake_step_to_show_snapshot_complete.
fake_step_to_show_snapshot_complete ==
    /\ pc = "fake_step_to_show_snapshot_complete"
    /\ \/ /\ calls' = Append(calls, "snapshot_attached_here")
          /\ bump_progress_up("fake_step_to_show_snapshot_complete",
                              "transfer_immutable_vhds")
       \/ /\ RaiseInResizeUp(Error("StepError", "snapshot_attached_here"))
          /\ UNCHANGED <<calls, prog, steps_run>>
    /\ UNCHANGED <<op, instance, hyp, vm_ref, undo_stack, registered, undo_ran, polls,
                   chains>>
    /\ UNCHANGED <<xenstore_vars, race_vars>>

\* transfer_immutable_vhds: migrate_vhd of every VHD of the root chain but
\* the active one.
transfer_immutable_vhds ==
    /\ pc = "transfer_immutable_vhds"
    /\ \/ /\ calls' = Append(calls, "migrate_vhd_immutable")
          /\ bump_progress_up("transfer_immutable_vhds",
                              "transfer_ephemeral_disks_then_all_leaf_vdis")
       \/ /\ StepRaisesUp("transfer_immutable_vhds")
          /\ UNCHANGED calls
    /\ UNCHANGED <<op, instance, hyp, vm_ref, undo_stack, registered, undo_ran, polls,
                   chains>>
    /\ UNCHANGED <<xenstore_vars, race_vars>>

\* transfer_ephemeral_disks_then_all_leaf_vdis, up to the first call of
\* _process_ephemeral_chain_recursive: the ephemeral chains of the VM.
transfer_ephemeral_disks_then_all_leaf_vdis ==
    /\ pc = "transfer_ephemeral_disks_then_all_leaf_vdis"
    /\ \/ /\ \E n \in 0..MaxEph : chains' = [left |-> n, active |-> 0]
          /\ pc' = "_process_ephemeral_chain_recursive"
          /\ raised' = raised
       \/ /\ RaiseInResizeUp(Error("StepError",
                 "transfer_ephemeral_disks_then_all_leaf_vdis"))
          /\ UNCHANGED chains
    /\ UNCHANGED <<op, instance, hyp, vm_ref, undo_stack, registered, hist, prog, polls>>
    /\ UNCHANGED <<xenstore_vars, race_vars>>

\* Fault variant of _process_ephemeral_chain_recursive: the recursion ends
\* with one chain still to go, which is never snapshotted.
_process_ephemeral_chain_recursive_ends_early ==
    /\ pc = "_process_ephemeral_chain_recursive"
    /\ IF chains.left <= 1
       THEN /\ pc' = "power_down_and_transfer_leaf_vhds"
            /\ UNCHANGED <<chains, calls, raised>>
       ELSE \/ /\ chains' = [left |-> chains.left - 1,
                             active |-> chains.active + 1]
               /\ calls' = calls \o <<"snapshot_attached_here",
                                      "migrate_vhd_immutable">>
               /\ UNCHANGED <<pc, raised>>
            \/ /\ RaiseInResizeUp(Error("StepError",
                      "_process_ephemeral_chain_recursive"))
               /\ UNCHANGED <<chains, calls>>
    /\ UNCHANGED <<op, instance, hyp, vm_ref, undo_stack, registered, undo_ran,
                   steps_run, prog, polls>>
    /\ UNCHANGED <<xenstore_vars, race_vars>>

\* _process_ephemeral_chain_recursive with chains left: snapshot the next
\* ephemeral disk, remember its active VDI, migrate the inactive VHDs and
\* recurse on the remaining chains.  With no chain left it calls
\* power_down_and_transfer_leaf_vhds.
_process_ephemeral_chain_recursive ==
    /\ pc = "_process_ephemeral_chain_recursive"
    /\ IF chains.left = 0
       THEN /\ pc' = "power_down_and_transfer_leaf_vhds"
            /\ UNCHANGED <<chains, calls, raised>>
       ELSE \/ /\ chains' = [left |-> chains.left - 1,
                             active |-> chains.active + 1]
               /\ calls' = calls \o <<"snapshot_attached_here",
                                      "migrate_vhd_immutable">>
               /\ UNCHANGED <<pc, raised>>
            \/ /\ RaiseInResizeUp(Error("StepError",
                      "_process_ephemeral_chain_recursive"))
               /\ UNCHANGED <<chains, calls>>
    /\ UNCHANGED <<op, instance, hyp, vm_ref, undo_stack, registered, undo_ran,
                   steps_run, prog, polls>>
    /\ UNCHANGED <<xenstore_vars, race_vars>>

\* Fault variant of the leaf transfers: the leaves of the ephemeral disks
\* are left out.
LeafTransfersRootOnly(n) == <<"migrate_vhd_leaf">>

\* The leaf transfers of power_down_and_transfer_leaf_vhds: the root leaf
\* and one per active ephemeral VDI.
RECURSIVE LeafTransfers(_)
LeafTransfers(n) ==
    IF n = 0 THEN <<>> ELSE Append(LeafTransfers(n - 1), "migrate_vhd_leaf")

\* power_down_and_transfer_leaf_vhds: shut the VM down, then migrate the
\* leaf of the root disk and of every ephemeral disk.
power_down_and_transfer_leaf_vhds ==
    /\ pc = "power_down_and_transfer_leaf_vhds"
    /\ \E shut \in BOOLEAN, moved \in BOOLEAN :
         LET s == _resize_ensure_vm_is_shutdown(vms, vm_ref, shut) IN
         IF ~s.ok
         THEN /\ RaiseInResizeUp(Error("ResizeError",
                     "power_down_and_transfer_leaf_vhds"))
              /\ calls' = calls \o s.calls
              /\ UNCHANGED <<vms, prog, steps_run>>
         ELSE IF ~moved
         THEN /\ vms' = s.vms
              /\ calls' = calls \o s.calls
              /\ StepRaisesUp("power_down_and_transfer_leaf_vhds")
         ELSE /\ vms' = s.vms
              /\ calls' = calls \o s.calls \o
                          LeafTransfers(1 + chains.active)
              /\ bump_progress_up("power_down_and_transfer_leaf_vhds",
                     "transfer_ephemeral_disks_then_all_leaf_vdis_done")
    /\ UNCHANGED <<op, instance, vdis, vbds, files, vm_ref, undo_stack, registered,
                   undo_ran, polls, chains>>
    /\ UNCHANGED <<xenstore_vars, race_vars>>

\* transfer_ephemeral_disks_then_all_leaf_vdis returns: the step decorator
\* bumps the progress; the with blocks delete their snapshots on exit.
transfer_ephemeral_disks_then_all_leaf_vdis_done ==
    /\ pc = "transfer_ephemeral_disks_then_all_leaf_vdis_done"
    /\ bump_progress_up("transfer_ephemeral_disks_then_all_leaf_vdis",
                        "_detach_block_devices_from_orig_vm")
    /\ UNCHANGED <<op, instance, hyp, vm_ref, undo_stack, registered, undo_ran, calls,
                   polls, chains>>
    /\ UNCHANGED <<xenstore_vars, race_vars>>

\* Fault variant of the except clause of _migrate_disk_resizing_up: a
\* failure of the restore is not caught and replaces the original error.
ResizeUpReraiseRestoreError(error, restore_outcome) ==
    IF restore_outcome = "raised"
    THEN Error("RestoreError", "_restore_orig_vm_and_cleanup_orphan")
    ELSE InstanceFaultRollback(error)

\* What _migrate_disk_resizing_up raises out of its handler: the restore is
\* wrapped in try/except, so InstanceFaultRollback(error) whether or not the
\* restore raised.
ResizeUpReraise(error, restore_outcome) == InstanceFaultRollback(error)

\* _migrate_disk_resizing_up, except Exception as error: restore the
\* original VM (a failure of the restore is logged), then raise
\* InstanceFaultRollback(error).
resize_up_except ==
    /\ pc = "resize_up_except"
    /\ \E env \in RestoreEnvs :
         LET r == _restore_orig_vm_and_cleanup_orphan(HypState, TRUE, env)
         IN  /\ vms' = r.st.vms
             /\ vdis' = r.st.vdis
             /\ vbds' = r.st.vbds
             /\ files' = r.st.files
             /\ calls' = calls \o r.calls
             /\ undo_ran' = Append(undo_ran,
                   [undo |-> "_restore_orig_vm_and_cleanup_orphan",
                    outcome |-> r.outcome])
             /\ raised' = ResizeUpReraise(raised, r.outcome)
    /\ pc' = "done"
    /\ UNCHANGED <<op, instance, vm_ref, undo_stack, registered, steps_run, prog, polls,
                   chains>>
    /\ UNCHANGED <<xenstore_vars, race_vars>>

\* ------------------------------------------- migrate_disk_and_power_off
\* Fault variant of the choice of the path: equal sizes go down as well.
IsResizeDownOrEqual(old_gb, new_gb) == old_gb >= new_gb

\* resize_down = old_gb > new_gb: the path migrate_disk_and_power_off takes.
IsResizeDown(old_gb, new_gb) == old_gb > new_gb

\* Fault variant of migrate_disk_and_power_off: the VM is looked up before
\* the root disk size is checked.
migrate_disk_and_power_off_lookup_first ==
    /\ pc = "idle"
    /\ \E old_eph \in 0..1, new_eph \in 0..1,
          old_gb \in 0..MaxGb, new_gb \in 0..MaxGb, written \in BOOLEAN :
         LET resize_down == IsResizeDown(old_gb, new_gb)
             ref == lookup(vms, Name)
         IN
         IF old_eph > new_eph
         THEN /\ RaiseToCaller(Error("ResizeError",
                     "_ensure_not_resize_down_ephemeral"))
              /\ UNCHANGED <<op, vm_ref, prog>>
         ELSE IF ~written
         THEN /\ RaiseToCaller(Error("ProgressError",
                     "migrate_disk_and_power_off"))
              /\ UNCHANGED <<op, vm_ref, prog>>
         ELSE /\ emitted' = _update_instance_progress(emitted, 0,
                                                      RESIZE_TOTAL_STEPS)
              /\ IF ref = None
                 THEN /\ RaiseToCaller(Error("InstanceNotFound",
                             "migrate_disk_and_power_off"))
                      /\ UNCHANGED <<op, vm_ref, step_info>>
                 ELSE IF new_gb = 0 /\ old_gb # 0
                 THEN /\ RaiseToCaller(Error("ResizeError",
                             "migrate_disk_and_power_off"))
                      /\ vm_ref' = ref
                      /\ UNCHANGED <<op, step_info>>
                 ELSE /\ op' = [NoOp EXCEPT
                                  !.kind = IF resize_down THEN "resize_down"
                                           ELSE "resize_up",
                                  !.was_power = vms[ref].power,
                                  !.old_gb = old_gb, !.new_gb = new_gb]
                      /\ vm_ref' = ref
                      /\ step_info' = [total |-> 1 + 4, current |-> 0]
                      /\ pc' = IF resize_down
                               THEN "fake_step_to_match_resizing_up"
                               ELSE "resize_up_apply_orig_vm_name_label"
                      /\ raised' = raised
    /\ undo_stack' = <<>>
    /\ registered' = <<>>
    /\ UNCHANGED <<instance, hyp, hist, polls, chains>>
    /\ UNCHANGED <<xenstore_vars, race_vars>>

\* migrate_disk_and_power_off up to the call of the resize path:
\* _ensure_not_resize_down_ephemeral, progress 0, the root disk check, the
\* lookup of the VM, the choice of the path.  Both paths build a step
\* decorator with total_offset=1 and decorate four steps.
migrate_disk_and_power_off ==
    /\ pc = "idle"
    /\ \E old_eph \in 0..1, new_eph \in 0..1,
          old_gb \in 0..MaxGb, new_gb \in 0..MaxGb, written \in BOOLEAN :
         LET resize_down == IsResizeDown(old_gb, new_gb)
             ref == lookup(vms, Name)
         IN
         IF old_eph > new_eph
         THEN /\ RaiseToCaller(Error("ResizeError",
                     "_ensure_not_resize_down_ephemeral"))
              /\ UNCHANGED <<op, vm_ref, prog>>
         ELSE IF ~written
         THEN /\ RaiseToCaller(Error("ProgressError",
                     "migrate_disk_and_power_off"))
              /\ UNCHANGED <<op, vm_ref, prog>>
         ELSE /\ emitted' = _update_instance_progress(emitted, 0,
                                                      RESIZE_TOTAL_STEPS)
              /\ IF new_gb = 0 /\ old_gb # 0
                 THEN /\ RaiseToCaller(Error("ResizeError",
                             "migrate_disk_and_power_off"))
                      /\ UNCHANGED <<op, vm_ref, step_info>>
                 ELSE IF ref = None
                 THEN /\ RaiseToCaller(Error("InstanceNotFound",
                             "migrate_disk_and_power_off"))
                      /\ UNCHANGED <<op, vm_ref, step_info>>
                 ELSE /\ op' = [NoOp EXCEPT
                                  !.kind = IF resize_down THEN "resize_down"
                                           ELSE "resize_up",
                                  !.was_power = vms[ref].power,
                                  !.old_gb = old_gb, !.new_gb = new_gb]
                      /\ vm_ref' = ref
                      /\ step_info' = [total |-> 1 + 4, current |-> 0]
                      /\ pc' = IF resize_down
                               THEN "fake_step_to_match_resizing_up"
                               ELSE "resize_up_apply_orig_vm_name_label"
                      /\ raised' = raised
    /\ undo_stack' = <<>>
    /\ registered' = <<>>
    /\ UNCHANGED <<instance, hyp, hist, polls, chains>>
    /\ UNCHANGED <<xenstore_vars, race_vars>>

\* migrate_disk_and_power_off after the resize path returned:
\* _detach_block_devices_from_orig_vm, whose detach_volume may raise.
_detach_block_devices_from_orig_vm ==
    /\ pc = "_detach_block_devices_from_orig_vm"
    /\ \/ /\ pc' = "done"
          /\ raised' = raised
       \/ RaiseToCaller(Error("StepError",
               "_detach_block_devices_from_orig_vm"))
    /\ calls' = Append(calls, "detach_volume")
    /\ UNCHANGED <<op, instance, hyp, vm_ref, undo_stack, registered, undo_ran,
                   steps_run, prog, polls, chains>>
    /\ UNCHANGED <<xenstore_vars, race_vars>>

\* ------------------------------------------- operations on an existing VM
\* Where an operation on an existing VM can be called: first, or after
\* another operation returned.
Idle == {"idle", "idle_again"}

\* The hypervisor state after a call chain computed on a state value.
SetHyp(st) ==
    /\ vms' = st.vms
    /\ vdis' = st.vdis
    /\ vbds' = st.vbds
    /\ files' = st.files

\* What an operation without steps leaves alone.
NoPipeline ==
    UNCHANGED <<instance, undo_stack, registered, undo_ran, prog, steps_run,
                polls, chains>>

\* The operation returns to its caller.
Returns == pc' = "done" /\ raised' = raised

\* An operation that starts with _get_vm_opaque_ref on a name that
\* resolves to no VM: InstanceNotFound, nothing else happens.
NotFound(kind) ==
    /\ op' = [NoOp EXCEPT !.kind = kind]
    /\ RaiseToCaller(Error("InstanceNotFound", "_get_vm_opaque_ref"))
    /\ UNCHANGED <<hyp, vm_ref, calls>>

\* The ways the remote calls of _destroy_rescue_instance can go wrong:
\* VM.hard_shutdown or VM.destroy raises (safe_destroy_vdis logs a failure).
RescueDestroyEnvs == {"ok", "shutdown_raises", "vm_destroy_raises"}

\* Fault variant of _destroy_rescue_instance: every VDI of the rescue VM is
\* destroyed, the root VDI of the original VM included.
_destroy_rescue_instance_all_vdis(st, rescue_vm_ref, original_vm_ref, env) ==
    LET halted   == [st EXCEPT !.vms[rescue_vm_ref].power = "Halted"]
        doomed   == lookup_vm_vdis(halted, rescue_vm_ref)
        gone     == [halted EXCEPT
                        !.vdis = @ \ doomed,
                        !.vbds = {b \in @ : b[2] \notin doomed
                                            /\ b[1] # rescue_vm_ref},
                        !.vms[rescue_vm_ref] = NoVM]
    IN  [st |-> gone,
         calls |-> <<"rescue.VM.hard_shutdown", "rescue.VDI.destroy",
                     "rescue.VM.destroy">>,
         outcome |-> "ok"]

\* _destroy_rescue_instance(rescue_vm_ref, original_vm_ref) on state st:
\* hard shutdown of the rescue VM unless it is shut down, destroy its VDIs
\* but the root VDI of the original VM, destroy the rescue VM record.
_destroy_rescue_instance(st, rescue_vm_ref, original_vm_ref, env) ==
    LET down      == st.vms[rescue_vm_ref].power = "Halted"
        downcalls == IF down THEN <<>> ELSE <<"rescue.VM.hard_shutdown">>
        halted    == [st EXCEPT !.vms[rescue_vm_ref].power = "Halted"]
        rootless  == original_vm_ref # None /\
                     \A d \in VDIs : <<original_vm_ref, d>> \notin st.vbds
        root_vdi  == IF original_vm_ref # None /\
                        <<original_vm_ref, "orig_root">> \in st.vbds
                     THEN {"orig_root"} ELSE {}
        doomed    == lookup_vm_vdis(halted, rescue_vm_ref) \ root_vdi
        diskless  == [halted EXCEPT
                         !.vdis = @ \ doomed,
                         !.vbds = {b \in @ : b[2] \notin doomed}]
        gone      == [diskless EXCEPT
                         !.vms[rescue_vm_ref] = NoVM,
                         !.vbds = {b \in @ : b[1] # rescue_vm_ref}]
    IN  IF ~down /\ env = "shutdown_raises"
        THEN [st |-> st, calls |-> downcalls, outcome |-> "raised"]
        ELSE IF rootless
        THEN [st |-> halted, calls |-> downcalls, outcome |-> "raised"]
        ELSE IF env = "vm_destroy_raises"
        THEN [st |-> diskless,
              calls |-> downcalls \o <<"rescue.VDI.destroy",
                                       "rescue.VM.destroy">>,
              outcome |-> "raised"]
        ELSE [st |-> gone,
              calls |-> downcalls \o <<"rescue.VDI.destroy",
                                       "rescue.VM.destroy">>,
              outcome |-> "ok"]

\* Fault variant of destroy: the VM is looked up with _get_vm_opaque_ref,
\* which raises InstanceNotFound for a name that resolves to no VM.
destroy_with_get_vm_opaque_ref ==
    /\ pc \in Idle
    /\ lookup(vms, Name) = None
    /\ NotFound("destroy")
    /\ NoPipeline
    /\ UNCHANGED <<xenstore_vars, race_vars>>

\* destroy(), up to the call of _destroy: look up the VM and the rescue VM
\* by name (no InstanceNotFound for a missing VM) and tear down the rescue
\* VM if there is one.
destroy ==
    /\ pc \in Idle
    /\ \E destroy_disks \in BOOLEAN, env \in RescueDestroyEnvs :
         LET ref == lookup(vms, Name)
             rescue_vm_ref == lookup(vms, RescueName)
             r == IF rescue_vm_ref # None
                  THEN _destroy_rescue_instance(HypState, rescue_vm_ref, ref,
                                                env)
                  ELSE [st |-> HypState, calls |-> <<>>, outcome |-> "ok"]
         IN  /\ op' = [NoOp EXCEPT
                         !.kind = "destroy",
                         !.destroy_disks = destroy_disks,
                         !.was_power = IF ref = None THEN "Halted"
                                       ELSE vms[ref].power]
             /\ vm_ref' = ref
             /\ SetHyp(r.st)
             /\ calls' = r.calls
             /\ IF r.outcome = "raised"
                THEN RaiseToCaller(Error("XenAPIFailure",
                                         "_destroy_rescue_instance"))
                ELSE pc' = "_destroy" /\ raised' = raised
    /\ NoPipeline
    /\ UNCHANGED <<xenstore_vars, race_vars>>

\* destroy(): return self._destroy(instance, vm_ref, network_info,
\* destroy_disks).
destroy_calls__destroy ==
    /\ pc = "_destroy"
    /\ \E env \in DestroyEnvs :
         LET d == _destroy(HypState, vm_ref, op.destroy_disks, env)
         IN  /\ SetHyp(d.st)
             /\ calls' = calls \o d.calls
             /\ IF d.outcome \in {"raised", "InstanceUnacceptable"}
                THEN RaiseToCaller(Error(
                        IF d.outcome = "raised" THEN "XenAPIFailure"
                        ELSE "InstanceUnacceptable", "_destroy"))
                ELSE Returns
    /\ UNCHANGED <<op, vm_ref>>
    /\ NoPipeline
    /\ UNCHANGED <<xenstore_vars, race_vars>>

\* confirm_migration(): _destroy_orig_vm destroys the VM called name-orig,
\* if there is one.
confirm_migration ==
    /\ pc \in Idle
    /\ \E env \in DestroyEnvs :
         LET ref == lookup(vms, OrigName)
             d == _destroy(HypState, ref, TRUE, env)
         IN  /\ op' = [NoOp EXCEPT !.kind = "confirm_migration"]
             /\ vm_ref' = ref
             /\ SetHyp(d.st)
             /\ calls' = d.calls
             /\ IF d.outcome \in {"raised", "InstanceUnacceptable"}
                THEN RaiseToCaller(Error(
                        IF d.outcome = "raised" THEN "XenAPIFailure"
                        ELSE "InstanceUnacceptable", "_destroy"))
                ELSE Returns
    /\ NoPipeline
    /\ UNCHANGED <<xenstore_vars, race_vars>>

\* finish_revert_migration(): _restore_orig_vm_and_cleanup_orphan with the
\* caller's power_on.
finish_revert_migration ==
    /\ pc \in Idle
    /\ \E power_on \in BOOLEAN, env \in RestoreEnvs :
         LET r == _restore_orig_vm_and_cleanup_orphan(HypState, power_on, env)
         IN  /\ op' = [NoOp EXCEPT !.kind = "finish_revert_migration",
                                   !.power_on = power_on]
             /\ SetHyp(r.st)
             /\ calls' = r.calls
             /\ IF r.outcome = "raised"
                THEN RaiseToCaller(Error("XenAPIFailure",
                        "_restore_orig_vm_and_cleanup_orphan"))
                ELSE Returns
    /\ UNCHANGED vm_ref
    /\ NoPipeline
    /\ UNCHANGED <<xenstore_vars, race_vars>>

\* suspend(): set the bootlock, then VM.suspend, which the hypervisor
\* refuses for a VM that is not running.
suspend ==
    /\ pc \in Idle
    /\ LET ref == lookup(vms, Name) IN
       IF ref = None THEN NotFound("suspend")
       ELSE \E locked \in BOOLEAN, suspended \in BOOLEAN :
              /\ op' = [NoOp EXCEPT !.kind = "suspend",
                                    !.was_power = vms[ref].power]
              /\ vm_ref' = ref
              /\ IF ~locked
                 THEN /\ RaiseToCaller(Error("XenAPIFailure",
                                             "_acquire_bootlock"))
                      /\ calls' = <<"VM.set_blocked_operations">>
                      /\ UNCHANGED vms
                 ELSE IF suspended /\ vms[ref].power = "Running"
                 THEN /\ vms' = [_acquire_bootlock(vms, ref) EXCEPT
                                    ![ref].power = "Suspended"]
                      /\ calls' = <<"VM.set_blocked_operations",
                                    "VM.suspend">>
                      /\ Returns
                 ELSE /\ vms' = _acquire_bootlock(vms, ref)
                      /\ calls' = <<"VM.set_blocked_operations",
                                    "VM.suspend">>
                      /\ RaiseToCaller(Error("XenAPIFailure", "VM.suspend"))
              /\ UNCHANGED <<vdis, vbds, files>>
    /\ NoPipeline
    /\ UNCHANGED <<xenstore_vars, race_vars>>

\* resume(): release the bootlock, then VM.resume, which the hypervisor
\* refuses for a VM that is not suspended.
resume ==
    /\ pc \in Idle
    /\ LET ref == lookup(vms, Name) IN
       IF ref = None THEN NotFound("resume")
       ELSE \E released \in BOOLEAN, resumed \in BOOLEAN :
              /\ op' = [NoOp EXCEPT !.kind = "resume",
                                    !.was_power = vms[ref].power]
              /\ vm_ref' = ref
              /\ IF ~released
                 THEN /\ RaiseToCaller(Error("XenAPIFailure",
                                             "_release_bootlock"))
                      /\ calls' = <<"VM.remove_from_blocked_operations">>
                      /\ UNCHANGED vms
                 ELSE IF resumed /\ vms[ref].power = "Suspended"
                 THEN /\ vms' = [_release_bootlock(vms, ref) EXCEPT
                                    ![ref].power = "Running"]
                      /\ calls' = <<"VM.remove_from_blocked_operations",
                                    "VM.resume">>
                      /\ Returns
                 ELSE /\ vms' = _release_bootlock(vms, ref)
                      /\ calls' = <<"VM.remove_from_blocked_operations",
                                    "VM.resume">>
                      /\ RaiseToCaller(Error("XenAPIFailure", "VM.resume"))
              /\ UNCHANGED <<vdis, vbds, files>>
    /\ NoPipeline
    /\ UNCHANGED <<xenstore_vars, race_vars>>

\* soft_delete(): a missing VM is logged and skipped; else a hard shutdown
\* (hard_shutdown_vm reports a failure by its result, which is not looked
\* at) and the bootlock.
soft_delete ==
    /\ pc \in Idle
    /\ LET ref == lookup(vms, Name) IN
       IF ref = None
       THEN /\ op' = [NoOp EXCEPT !.kind = "soft_delete"]
            /\ Returns
            /\ UNCHANGED <<hyp, vm_ref, calls>>
       ELSE \E halted \in BOOLEAN, locked \in BOOLEAN :
              LET down == IF halted
                          THEN [vms EXCEPT ![ref].power = "Halted"]
                          ELSE vms
              IN  /\ op' = [NoOp EXCEPT !.kind = "soft_delete",
                                        !.was_power = vms[ref].power]
                  /\ vm_ref' = ref
                  /\ calls' = <<"VM.hard_shutdown",
                                "VM.set_blocked_operations">>
                  /\ IF locked
                     THEN /\ vms' = _acquire_bootlock(down, ref)
                          /\ Returns
                     ELSE /\ vms' = down
                          /\ RaiseToCaller(Error("XenAPIFailure",
                                                 "_acquire_bootlock"))
                  /\ UNCHANGED <<vdis, vbds, files>>
    /\ NoPipeline
    /\ UNCHANGED <<xenstore_vars, race_vars>>

\* restore(): release the bootlock, then _start, whose VM.start_on the
\* hypervisor refuses for a VM that is not shut down.
restore ==
    /\ pc \in Idle
    /\ LET ref == lookup(vms, Name) IN
       IF ref = None THEN NotFound("restore")
       ELSE \E released \in BOOLEAN, started \in BOOLEAN :
              /\ op' = [NoOp EXCEPT !.kind = "restore",
                                    !.was_power = vms[ref].power]
              /\ vm_ref' = ref
              /\ IF ~released
                 THEN /\ RaiseToCaller(Error("XenAPIFailure",
                                             "_release_bootlock"))
                      /\ calls' = <<"VM.remove_from_blocked_operations">>
                      /\ UNCHANGED vms
                 ELSE IF started /\ vms[ref].power = "Halted"
                 THEN /\ vms' = [_release_bootlock(vms, ref) EXCEPT
                                    ![ref].power = "Running"]
                      /\ calls' = <<"VM.remove_from_blocked_operations",
                                    "VM.start_on">>
                      /\ Returns
                 ELSE /\ vms' = _release_bootlock(vms, ref)
                      /\ calls' = <<"VM.remove_from_blocked_operations",
                                    "VM.start_on">>
                      /\ RaiseToCaller(Error("XenAPIFailure", "_start"))
              /\ UNCHANGED <<vdis, vbds, files>>
    /\ NoPipeline
    /\ UNCHANGED <<xenstore_vars, race_vars>>

\* Fault variant of unrescue: the bootlock of the original VM is released
\* before the check for the rescue VM.
unrescue_release_before_check ==
    /\ pc \in Idle
    /\ lookup(vms, RescueName) = None
    /\ lookup(vms, Name) # None
    /\ op' = [NoOp EXCEPT !.kind = "unrescue"]
    /\ vms' = _release_bootlock(vms, lookup(vms, Name))
    /\ calls' = <<"VM.remove_from_blocked_operations">>
    /\ RaiseToCaller(Error("InstanceNotInRescueMode", "unrescue"))
    /\ UNCHANGED <<vdis, vbds, files, vm_ref>>
    /\ NoPipeline
    /\ UNCHANGED <<xenstore_vars, race_vars>>

\* unrescue(): InstanceNotInRescueMode without a rescue VM; else tear the
\* rescue VM down, release the bootlock of the original VM and start it.
unrescue ==
    /\ pc \in Idle
    /\ LET rescue_vm_ref == lookup(vms, RescueName)
           original_vm_ref == lookup(vms, Name)
       IN
       IF rescue_vm_ref = None
       THEN /\ op' = [NoOp EXCEPT !.kind = "unrescue"]
            /\ RaiseToCaller(Error("InstanceNotInRescueMode", "unrescue"))
            /\ UNCHANGED <<hyp, vm_ref, calls>>
       ELSE IF original_vm_ref = None THEN NotFound("unrescue")
       ELSE \E env \in RescueDestroyEnvs, released \in BOOLEAN,
               started \in BOOLEAN :
              LET r == _destroy_rescue_instance(HypState, rescue_vm_ref,
                                                original_vm_ref, env)
                  unlocked == _release_bootlock(r.st.vms, original_vm_ref)
              IN  /\ op' = [NoOp EXCEPT
                              !.kind = "unrescue",
                              !.was_power = vms[original_vm_ref].power]
                  /\ vm_ref' = original_vm_ref
                  /\ vdis' = r.st.vdis
                  /\ vbds' = r.st.vbds
                  /\ files' = r.st.files
                  /\ IF r.outcome = "raised"
                     THEN /\ vms' = r.st.vms
                          /\ calls' = r.calls
                          /\ RaiseToCaller(Error("XenAPIFailure",
                                "_destroy_rescue_instance"))
                     ELSE IF ~released
                     THEN /\ vms' = r.st.vms
                          /\ calls' = Append(r.calls,
                                "VM.remove_from_blocked_operations")
                          /\ RaiseToCaller(Error("XenAPIFailure",
                                                 "_release_bootlock"))
                     ELSE IF started /\ unlocked[original_vm_ref].power
                                           = "Halted"
                     THEN /\ vms' = [unlocked EXCEPT
                                        ![original_vm_ref].power = "Running"]
                          /\ calls' = r.calls \o
                                <<"VM.remove_from_blocked_operations",
                                  "VM.start_on">>
                          /\ Returns
                     ELSE /\ vms' = unlocked
                          /\ calls' = r.calls \o
                                <<"VM.remove_from_blocked_operations",
                                  "VM.start_on">>
                          /\ RaiseToCaller(Error("XenAPIFailure", "_start"))
    /\ NoPipeline
    /\ UNCHANGED <<xenstore_vars, race_vars>>

\* ------------------------------------------------------ _start and reboot
\* The volumes find_bad_volumes can report for a VM.
BadVolumes == {"xvdb", "xvdc"}

\* The ways the remote calls of _start can go wrong.
StartEnvs == {"ok", "detach_raises", "start_raises"}

\* Fault variant of _start: the bad volumes are looked for and detached
\* whether or not a callback was passed.
_start_scan_always(vs, ref, bad_volumes_callback, bad_devices, env) ==
    LET before == <<"find_bad_volumes">> \o
                  [i \in 1..Cardinality(bad_devices) |-> "detach_volume"]
    IN  [vms |-> [vs EXCEPT ![ref].power = "Running"],
         calls |-> before \o <<"VM.start_on">>,
         detached |-> bad_devices,
         callback_args |-> {},
         outcome |-> "ok"]

\* _start(instance, vm_ref, bad_volumes_callback) on the VMs vs, where
\* find_bad_volumes would report bad_devices:
\*   1. with a callback: find_bad_volumes and a detach_volume per device
\*   2. VM.start_on, which fails for a VM that is not halted or has the
\*      start operation blocked
\*   3. with a callback and a non-empty list: the callback on that list
\* The result is the VMs, the calls made, the volumes detached, the
\* argument lists the callback was invoked with and how the call ended.
_start(vs, ref, bad_volumes_callback, bad_devices, env) ==
    LET before   == IF bad_volumes_callback
                    THEN <<"find_bad_volumes">> \o
                         [i \in 1..Cardinality(bad_devices) |->
                             "detach_volume"]
                    ELSE <<>>
        detached == IF bad_volumes_callback THEN bad_devices ELSE {}
        notify   == bad_volumes_callback /\ bad_devices # {}
        startable == /\ vs[ref].power = "Halted"
                     /\ ~vs[ref].bootlock
                     /\ env # "start_raises"
    IN  IF bad_volumes_callback /\ bad_devices # {} /\ env = "detach_raises"
        THEN [vms |-> vs,
              calls |-> <<"find_bad_volumes", "detach_volume">>,
              detached |-> {},
              callback_args |-> {},
              outcome |-> "raised"]
        ELSE IF ~startable
        THEN [vms |-> vs,
              calls |-> before \o <<"VM.start_on">>,
              detached |-> detached,
              callback_args |-> {},
              outcome |-> "raised"]
        ELSE [vms |-> [vs EXCEPT ![ref].power = "Running"],
              calls |-> before \o <<"VM.start_on">> \o
                        (IF notify THEN <<"bad_volumes_callback">>
                         ELSE <<>>),
              detached |-> detached,
              callback_args |-> IF notify THEN {bad_devices} ELSE {},
              outcome |-> "ok"]

\* vm_utils.lookup with check_rescue: the VM called name-rescue if it
\* exists, instead of the VM called name.
lookup_check_rescue(vs) ==
    IF lookup(vs, RescueName) # None THEN lookup(vs, RescueName)
    ELSE lookup(vs, Name)

\* exc.details of the XenAPI.Failure of a reboot call; <<>> is a reboot
\* that went through.  A VM that is not running cannot be rebooted.
RebootDetails(power) ==
    {<<"VM_BAD_POWER_STATE", "ref", "halted", "running">>,
     <<"SR_BACKEND_FAILURE_46">>,
     <<"SR_BACKEND_FAILURE_47", "", "halted">>,
     <<"HANDLE_INVALID", "VM", "ref">>}
    \cup (IF power = "Running" THEN {<<>>} ELSE {})
    \cup (IF power = "Halted"
          THEN {<<"VM_BAD_POWER_STATE", "ref", "running", "halted">>}
          ELSE {})
    \cup (IF power = "Suspended"
          THEN {<<"VM_BAD_POWER_STATE", "ref", "running", "suspended">>}
          ELSE {})

\* Fault variant of StartsInstead: a failure whose last detail is 'halted'
\* is answered by a start, whatever its code.
StartsInsteadLastDetailOnly(details) ==
    \/ details[Len(details)] = "halted"
    \/ details[1] = "SR_BACKEND_FAILURE_46"

\* reboot(): the failures of the reboot call that are answered by _start:
\* details[0] == 'VM_BAD_POWER_STATE' and details[-1] == 'halted', or
\* details[0] == 'SR_BACKEND_FAILURE_46'.
StartsInstead(details) ==
    \/ details[1] = "VM_BAD_POWER_STATE" /\ details[Len(details)] = "halted"
    \/ details[1] = "SR_BACKEND_FAILURE_46"

\* reboot(instance, reboot_type, bad_volumes_callback): look the VM up (the
\* rescue VM if there is one), call VM.hard_reboot or VM.clean_reboot; a
\* XenAPI.Failure is answered by _start or re-raised.
reboot ==
    /\ pc \in Idle
    /\ LET ref == lookup_check_rescue(vms) IN
       IF ref = None THEN NotFound("reboot")
       ELSE \E reboot_type \in {"HARD", "SOFT"},
               details \in RebootDetails(vms[ref].power),
               bad_volumes_callback \in BOOLEAN,
               bad_devices \in SUBSET BadVolumes,
               env \in StartEnvs :
              LET call == IF reboot_type = "HARD" THEN "VM.hard_reboot"
                          ELSE "VM.clean_reboot"
                  s == _start(vms, ref, bad_volumes_callback, bad_devices,
                              env)
                  called == [NoOp EXCEPT
                               !.kind = "reboot",
                               !.was_power = vms[ref].power,
                               !.failure = details,
                               !.bad_volumes_callback = bad_volumes_callback,
                               !.bad_devices = bad_devices]
              IN  /\ vm_ref' = ref
                  /\ IF details = <<>>
                     THEN /\ op' = called
                          /\ calls' = <<call>>
                          /\ Returns
                          /\ UNCHANGED vms
                     ELSE IF StartsInstead(details)
                     THEN /\ op' = [called EXCEPT
                                      !.detached = s.detached,
                                      !.callback_args = s.callback_args]
                          /\ calls' = <<call>> \o s.calls
                          /\ vms' = s.vms
                          /\ IF s.outcome = "raised"
                             THEN RaiseToCaller(Error("XenAPIFailure",
                                                      "_start"))
                             ELSE Returns
                     ELSE /\ op' = called
                          /\ calls' = <<call>>
                          /\ RaiseToCaller(Error(details[1], call))
                          /\ UNCHANGED vms
                  /\ UNCHANGED <<vdis, vbds, files>>
    /\ NoPipeline
    /\ UNCHANGED <<xenstore_vars, race_vars>>

\* power_on(): look the VM up and _start it, without a callback.
power_on ==
    /\ pc \in Idle
    /\ LET ref == lookup(vms, Name) IN
       IF ref = None THEN NotFound("power_on")
       ELSE \E bad_devices \in SUBSET BadVolumes, env \in StartEnvs :
              LET s == _start(vms, ref, FALSE, bad_devices, env)
              IN  /\ op' = [NoOp EXCEPT
                              !.kind = "power_on",
                              !.was_power = vms[ref].power,
                              !.bad_devices = bad_devices,
                              !.detached = s.detached,
                              !.callback_args = s.callback_args]
                  /\ vm_ref' = ref
                  /\ calls' = s.calls
                  /\ vms' = s.vms
                  /\ IF s.outcome = "raised"
                     THEN RaiseToCaller(Error("XenAPIFailure", "_start"))
                     ELSE Returns
                  /\ UNCHANGED <<vdis, vbds, files>>
    /\ NoPipeline
    /\ UNCHANGED <<xenstore_vars, race_vars>>

\* The caller has the result of the operation; the next operation is
\* called on the hypervisor state this one left.  The pipelines (spawn,
\* rescue, finish_migration, migrate_disk_and_power_off) are explored as the
\* first call only, the operations on an existing VM also as later calls.
\* The storage repositories of the volumes and the references the
\* hypervisor gives for their uuids.
SrUuids == {"sr-uuid-1", "sr-uuid-2"}

SR_get_by_uuid(sr_uuid) ==
    IF sr_uuid = "sr-uuid-1" THEN "OpaqueRef:sr-1" ELSE "OpaqueRef:sr-2"

NoSrRef == "unbound"

\* block_device_info of a call: None, or a mapping of up to MaxVolumes
\* volumes, each on a storage repository.
BlockDeviceInfos ==
    {[is_none |-> TRUE, block_device_mapping |-> <<>>]} \cup
    {[is_none |-> FALSE, block_device_mapping |-> m] :
        m \in UNION {[1..n -> SrUuids] : n \in 0..MaxVolumes}}

\* Where a call of attach_block_device_volumes fails: nowhere (at = 0), or
\* in one of the two calls made for the volume at that place.
AttachFailures ==
    {[at |-> 0, call |-> "none"]} \cup
    {[at |-> k, call |-> c] :
        k \in 1..MaxVolumes, c \in {"attach_volume", "SR.get_by_uuid"}}

\* The loop of attach_block_device_volumes from volume i on.
RECURSIVE attach_loop(_, _, _, _, _, _)
attach_loop(mapping, i, sr_uuid_map, sr_ref, connected, fail) ==
    IF i > Len(mapping)
    THEN [sr_uuid_map |-> sr_uuid_map, sr_ref |-> sr_ref,
          connected |-> connected, error |-> NoError]
    ELSE IF fail.at = i /\ fail.call = "attach_volume"
    THEN [sr_uuid_map |-> sr_uuid_map, sr_ref |-> sr_ref,
          connected |-> connected,
          error |-> Error("StorageError", "attach_volume")]
    ELSE IF fail.at = i /\ fail.call = "SR.get_by_uuid"
    THEN [sr_uuid_map |-> sr_uuid_map, sr_ref |-> sr_ref,
          connected |-> connected \cup {mapping[i]},
          error |-> Error("XenAPIFailure", "SR.get_by_uuid")]
    ELSE attach_loop(mapping, i + 1,
                     [u \in DOMAIN sr_uuid_map \cup {mapping[i]} |->
                         IF u = mapping[i] THEN SR_get_by_uuid(u)
                         ELSE sr_uuid_map[u]],
                     SR_get_by_uuid(mapping[i]),
                     connected \cup {mapping[i]}, fail)

\* The cleanup of attach_block_device_volumes: one forget_sr for every key
\* of the map, each of sr_uuid_map[sr_ref]; the lookup raises KeyError when
\* sr_ref is not a key of the map.
attach_cleanup(l) ==
    IF DOMAIN l.sr_uuid_map = {}
    THEN [forgotten |-> <<>>, error |-> l.error]
    ELSE IF l.sr_ref \in DOMAIN l.sr_uuid_map
    THEN [forgotten |-> [k \in 1..Cardinality(DOMAIN l.sr_uuid_map) |->
                            l.sr_uuid_map[l.sr_ref]],
          error |-> l.error]
    ELSE [forgotten |-> <<>>, error |-> Error("KeyError", "forget_sr")]

\* attach_block_device_volumes connects the volumes of block_device_info
\* and returns the map from SR uuid to SR reference; on an error it runs
\* the cleanup and raises.
attach_block_device_volumes ==
    /\ pc \in Idle
    /\ \E block_device_info \in BlockDeviceInfos, fail \in AttachFailures :
          LET l == attach_loop(block_device_info.block_device_mapping, 1,
                               <<>>, NoSrRef, {}, fail)
              c == attach_cleanup(l)
          IN  /\ op' = [NoOp EXCEPT
                          !.kind = "attach_block_device_volumes",
                          !.block_device_mapping =
                              block_device_info.block_device_mapping,
                          !.connected = l.connected,
                          !.sr_uuid_map = l.sr_uuid_map,
                          !.forgotten =
                              IF l.error = NoError THEN <<>> ELSE c.forgotten]
              /\ IF l.error = NoError
                 THEN Returns
                 ELSE RaiseToCaller(c.error)
    /\ UNCHANGED <<vm_ref, calls, hyp>>
    /\ NoPipeline
    /\ UNCHANGED <<xenstore_vars, race_vars>>

Index(seq, x) == CHOOSE i \in 1..Len(seq) : seq[i] = x
Occurs(seq, x) == \E i \in 1..Len(seq) : seq[i] = x

\* The remote calls that change xenstore data.
Remove(key) == [call |-> "VM.remove_from_xenstore_data", key |-> key]
Add(key)    == [call |-> "VM.add_to_xenstore_data", key |-> key]
Write(key)  == [call |-> "xenstore.write_record", key |-> key]
Delete(key) == [call |-> "xenstore.delete_record", key |-> key]

\* The locations of the metadata keys a diff can name, and the diffs: each
\* changed key is removed ('-') or set ('+').
MetadataLocations == {KeyUserMetadata, "vm-data/user-metadata/k2"}
Diffs == UNION {[ks -> {"-", "+"}] : ks \in SUBSET MetadataLocations}

\* _get_dom_id: the record of a VM that is not running has no domid.
HasDomId(vm) == vm.power = "Running"

\* process_change on the xenstore data of the VM record: '-' removes the
\* location, '+' removes it and adds it with the new value.
ParamAfterChanges(keys, diff, done) ==
    (keys \ done) \cup {k \in done : diff[k] = "+"}

\* Fault variant of LiveCalls: the KeyError of the missing domid is not
\* caught, so the call on the running domain is what the caller sees.
LiveCallsUncaught(vm, diff, done) ==
    {IF diff[k] = "-" THEN Delete(k) ELSE Write(k) : k \in done}

\* process_change on the running domain: the plugin call of each changed
\* location; without a domid it raises KeyError, which is passed over.
LiveCalls(vm, diff, done) ==
    IF HasDomId(vm)
    THEN {IF diff[k] = "-" THEN Delete(k) ELSE Write(k) : k \in done}
    ELSE {}

\* change_instance_metadata applies a diff of the instance metadata to
\* xenstore: nothing when the VM is not found; else, under the lock of the
\* instance, process_change for each key of the diff, until a call of the
\* hypervisor raises.  The xenstore data the VM record has when the call
\* is made is an input.
change_instance_metadata ==
    /\ pc \in Idle
    /\ LET ref == lookup(vms, Name) IN
       \E diff \in Diffs, param_xenstore \in SUBSET MetadataLocations :
          IF ref = None
          THEN /\ op' = [NoOp EXCEPT !.kind = "change_instance_metadata",
                                     !.diff = diff,
                                     !.param_before = param_xenstore,
                                     !.param_xenstore = param_xenstore]
               /\ Returns
          ELSE \E done \in SUBSET DOMAIN diff :
                 /\ op' = [NoOp EXCEPT
                             !.kind = "change_instance_metadata",
                             !.diff = diff,
                             !.was_power = vms[ref].power,
                             !.found = TRUE,
                             !.processed = done,
                             !.live_calls = LiveCalls(vms[ref], diff, done),
                             !.param_before = param_xenstore,
                             !.param_xenstore =
                                 ParamAfterChanges(param_xenstore, diff,
                                                   done)]
                 /\ IF done = DOMAIN diff
                    THEN Returns
                    ELSE RaiseToCaller(Error("XenAPIFailure",
                                             "process_change"))
    /\ UNCHANGED <<vm_ref, calls, hyp>>
    /\ NoPipeline
    /\ UNCHANGED <<xenstore_vars, race_vars>>

\* migrate_data of a live migration: None, an empty dict, or the data of
\* the destination.
MigrateDatas == {"None", "empty", "data"}

\* The calls of live_migrate inside its try block, in order, for a kind of
\* migration; "InvalidParameterValue" stands for the raise of a block
\* migration without migrate data.
LiveMigratePath(block_migration, migrate_data) ==
    <<"_get_vm_opaque_ref">>
    \o (IF migrate_data # "None" THEN <<"lookup_kernel_ramdisk">> ELSE <<>>)
    \o (IF block_migration
        THEN IF migrate_data # "data"
             THEN <<"InvalidParameterValue">>
             ELSE <<"_get_iscsi_srs", "VM.migrate_send", "forget_sr">>
        ELSE <<"_get_host_opaque_ref", "VM.pool_migrate">>)
    \o <<"post_method">>

LiveMigrateFailures ==
    {"none", "lookup_kernel_ramdisk", "_get_iscsi_srs", "VM.migrate_send",
     "forget_sr", "_get_host_opaque_ref", "VM.pool_migrate", "post_method"}

\* The try block from the call at place i on: the calls made and the error
\* that ends it, if any.
RECURSIVE live_migrate_try(_, _, _, _, _)
live_migrate_try(path, i, ref, fail, made) ==
    IF i > Len(path)
    THEN [calls |-> made, error |-> NoError]
    ELSE IF path[i] = "InvalidParameterValue"
    THEN [calls |-> made,
          error |-> Error("InvalidParameterValue", "live_migrate")]
    ELSE IF path[i] = "_get_vm_opaque_ref" /\ ref = None
    THEN [calls |-> Append(made, path[i]),
          error |-> Error("InstanceNotFound", "_get_vm_opaque_ref")]
    ELSE IF path[i] = fail
    THEN [calls |-> Append(made, path[i]),
          error |-> IF fail = "VM.migrate_send"
                    THEN Error("MigrationError", fail)
                    ELSE Error("XenAPIFailure", fail)]
    ELSE live_migrate_try(path, i + 1, ref, fail, Append(made, path[i]))

\* live_migrate: the try block, with post_method as its last call; any
\* error of it runs recover_method and is raised again, unless
\* recover_method raises itself.  A VM that VM.migrate_send has sent is no
\* longer on this host.
live_migrate ==
    /\ pc \in Idle
    /\ \E block_migration \in BOOLEAN, migrate_data \in MigrateDatas,
          fail \in LiveMigrateFailures, recover_raises \in BOOLEAN :
         LET ref == lookup(vms, Name)
             t   == live_migrate_try(
                       LiveMigratePath(block_migration, migrate_data), 1,
                       ref, fail, <<>>)
             sent == Occurs(t.calls, "VM.migrate_send")
                       /\ t.error.at # "VM.migrate_send"
         IN  /\ op' = [NoOp EXCEPT !.kind = "live_migrate"]
             /\ calls' = IF t.error = NoError THEN t.calls
                         ELSE Append(t.calls, "recover_method")
             /\ IF t.error = NoError THEN Returns
                ELSE IF recover_raises
                THEN RaiseToCaller(Error("RecoverError", "recover_method"))
                ELSE RaiseToCaller(t.error)
             /\ vms' = IF sent THEN [vms EXCEPT ![ref] = NoVM] ELSE vms
             /\ vbds' = IF sent THEN {b \in vbds : b[1] # ref} ELSE vbds
             /\ vdis' = IF sent THEN vdis \ lookup_vm_vdis(HypState, ref)
                        ELSE vdis
             /\ UNCHANGED <<files, vm_ref>>
    /\ NoPipeline
    /\ UNCHANGED <<xenstore_vars, race_vars>>

NextCall ==
    /\ pc = "done"
    /\ pc' = "idle_again"
    /\ op' = NoOp
    /\ vm_ref' = None
    /\ undo_stack' = <<>>
    /\ registered' = <<>>
    /\ undo_ran' = <<>>
    /\ step_info' = [total |-> 0, current |-> 0]
    /\ emitted' = <<>>
    /\ steps_run' = <<>>
    /\ calls' = <<>>
    /\ polls' = 0
    /\ chains' = [left |-> 0, active |-> 0]
    /\ raised' = NoError
    /\ UNCHANGED <<instance, hyp>>
    /\ UNCHANGED <<xenstore_vars, race_vars>>

\* --------------------------------------------------------------------- Next
Next ==
    \/ spawn
    \/ rescue
    \/ finish_migration
    \/ _spawn
    \/ determine_disk_image_type_step
    \/ create_disks_step
    \/ create_kernel_ramdisk_step
    \/ create_vm_record_step
    \/ attach_disks_step
    \/ inject_instance_data_step
    \/ setup_network_step
    \/ attach_root_disk_step
    \/ boot_instance_step
    \/ _wait_for_instance_to_start
    \/ VmReachesRunning
    \/ configure_booted_instance_step
    \/ apply_security_group_filters_step
    \/ completed_callback
    \/ undo_create_disks
    \/ undo_create_kernel_ramdisk
    \/ undo_create_vm
    \/ undo_attach_root_disk
    \/ spawn_rollback_and_reraise
    \/ migrate_disk_and_power_off
    \/ fake_step_to_match_resizing_up
    \/ rename_and_power_off_vm
    \/ create_copy_vdi_and_resize
    \/ transfer_vhd_to_dest
    \/ restore_orig_vm
    \/ cleanup_vdi_copy
    \/ resize_down_reraise
    \/ resize_up_apply_orig_vm_name_label
    \/ fake_step_to_show_snapshot_complete
    \/ transfer_immutable_vhds
    \/ transfer_ephemeral_disks_then_all_leaf_vdis
    \/ _process_ephemeral_chain_recursive
    \/ power_down_and_transfer_leaf_vhds
    \/ transfer_ephemeral_disks_then_all_leaf_vdis_done
    \/ resize_up_except
    \/ _detach_block_devices_from_orig_vm
    \/ destroy
    \/ destroy_calls__destroy
    \/ confirm_migration
    \/ finish_revert_migration
    \/ suspend
    \/ resume
    \/ soft_delete
    \/ restore
    \/ unrescue
    \/ reboot
    \/ power_on
    \/ attach_block_device_volumes
    \/ change_instance_metadata
    \/ live_migrate
    \/ NextCall

Spec == Init /\ [][Next]_vars

\* =========================================================== xenstore data
\* The writers of the xenstore data of a VM, called by several threads at
\* once.  Every remote call is a point where the calling thread yields to
\* the others.

\* The remote calls of the writers.

\* _remove_from_param_xenstore: one VM.remove_from_xenstore_data.
_remove_from_param_xenstore(key) == <<Remove(key)>>

\* _add_to_param_xenstore: the key is removed, then added with the value.
_add_to_param_xenstore(key) ==
    _remove_from_param_xenstore(key) \o <<Add(key)>>

\* _write_to_xenstore and _delete_from_xenstore: one call of the xenstore
\* plugin.
_write_to_xenstore(key)    == <<Write(key)>>
_delete_from_xenstore(key) == <<Delete(key)>>

\* The functions of VMOps that write xenstore data, each with the remote
\* calls it makes, in order:
\*   _inject_instance_metadata.store_meta      add per metadata key
\*   _inject_auto_disk_config.store_auto_disk_config   add
\*   change_instance_metadata.update_meta      per key of the diff: '-' is
\*       remove and delete, '+' is add and write
\*   inject_network_info.update_nwinfo         per vif: add and write
\*   _inject_hostname.update_hostname          add
\*   _remove_hostname.update_hostname          remove
WriterFunctions ==
    {[fn |-> "store_meta",
      plan |-> _add_to_param_xenstore(KeyUserMetadata)],
     [fn |-> "store_auto_disk_config",
      plan |-> _add_to_param_xenstore(KeyAutoDiskConfig)],
     [fn |-> "update_meta",
      plan |-> _remove_from_param_xenstore(KeyUserMetadata)
               \o _delete_from_xenstore(KeyUserMetadata)],
     [fn |-> "update_meta",
      plan |-> _add_to_param_xenstore(KeyUserMetadata)
               \o _write_to_xenstore(KeyUserMetadata)],
     [fn |-> "update_nwinfo",
      plan |-> _add_to_param_xenstore(KeyNetworking)
               \o _write_to_xenstore(KeyNetworking)],
     [fn |-> "_inject_hostname.update_hostname",
      plan |-> _add_to_param_xenstore(KeyHostname)],
     [fn |-> "_remove_hostname.update_hostname",
      plan |-> _remove_from_param_xenstore(KeyHostname)]}

\* Fault variant of SynchronizedWriters: the function that removes the
\* hostname is not decorated.
SynchronizedWritersButRemoveHostname ==
    {"store_meta", "store_auto_disk_config", "update_meta", "update_nwinfo",
     "_inject_hostname.update_hostname"}

\* The writer functions decorated with
\* @utils.synchronized('xenstore-' + instance['uuid']).
SynchronizedWriters ==
    {"store_meta", "store_auto_disk_config", "update_meta", "update_nwinfo",
     "_inject_hostname.update_hostname", "_remove_hostname.update_hostname"}

\* utils.synchronized: the lock of this name is held by nobody.
LockFree(ls, name) == ls[name] = None

\* A thread calls one of the writer functions for an instance; a decorated
\* function has to take the lock of the instance first.
CallWriter(t) ==
    /\ writers[t].pc = "idle"
    /\ \E u \in UUIDs, w \in WriterFunctions :
         writers' = [writers EXCEPT ![t] =
                        [pc |-> IF w.fn \in SynchronizedWriters
                                THEN "waiting" ELSE "writing",
                         uuid |-> u, fn |-> w.fn, plan |-> w.plan,
                         raised |-> FALSE, plugin_error |-> "none",
                         returned |-> "none"]]
    /\ UNCHANGED <<locks, xenstore>>
    /\ UNCHANGED <<lifecycle_vars, race_vars>>

\* utils.synchronized: the thread gets the lock once it is free.
AcquireLock(t) ==
    /\ writers[t].pc = "waiting"
    /\ LockFree(locks, writers[t].uuid)
    /\ locks' = [locks EXCEPT ![writers[t].uuid] = t]
    /\ writers' = [writers EXCEPT ![t].pc = "writing"]
    /\ UNCHANGED xenstore
    /\ UNCHANGED <<lifecycle_vars, race_vars>>

\* The xenstore data of a VM after a remote call.
AfterCall(keys, c) ==
    IF c.call = "VM.remove_from_xenstore_data" THEN keys \ {c.key}
    ELSE IF c.call = "VM.add_to_xenstore_data" THEN keys \cup {c.key}
    ELSE keys

\* The calls made through _make_plugin_call, and the last line of the
\* details of a XenAPI.Failure of call_plugin.
PluginCalls == {"xenstore.write_record", "xenstore.delete_record"}
PluginErrMsgs == {"TIMEOUT: no answer", "NOT IMPLEMENTED: write_record",
                  "No such file"}

\* _make_plugin_call when call_plugin raises XenAPI.Failure with this last
\* line: the failure is caught and a dict with a returncode is returned.
_make_plugin_call(err_msg) ==
    IF err_msg = "TIMEOUT: no answer"
    THEN [raised |-> FALSE, returncode |-> "timeout"]
    ELSE IF err_msg = "NOT IMPLEMENTED: write_record"
    THEN [raised |-> FALSE, returncode |-> "notimplemented"]
    ELSE [raised |-> FALSE, returncode |-> "error"]

\* The next remote call of a writer function: it goes through, or it
\* raises and the function is left, or it is a plugin call whose failure
\* goes through _make_plugin_call.
RemoteCall(t) ==
    /\ writers[t].pc = "writing"
    /\ writers[t].plan # <<>>
    /\ \/ /\ xenstore' = [xenstore EXCEPT ![writers[t].uuid] =
                             AfterCall(@, Head(writers[t].plan))]
          /\ writers' = [writers EXCEPT ![t].plan = Tail(@)]
       \/ /\ writers' = [writers EXCEPT ![t].plan = <<>>,
                                         ![t].raised = TRUE]
          /\ UNCHANGED xenstore
       \/ /\ Head(writers[t].plan).call \in PluginCalls
          /\ \E err_msg \in PluginErrMsgs :
                LET r == _make_plugin_call(err_msg) IN
                writers' = [writers EXCEPT
                   ![t].plan = IF r.raised THEN <<>> ELSE Tail(@),
                   ![t].raised = r.raised,
                   ![t].plugin_error = err_msg,
                   ![t].returned = r.returncode]
          /\ UNCHANGED xenstore
    /\ UNCHANGED locks
    /\ UNCHANGED <<lifecycle_vars, race_vars>>

\* Fault variant of ReturnFromWriter: the lock is released after the last
\* call of the function, which an error skips.
ReturnFromWriterKeepsLockOnError(t) ==
    /\ writers[t].pc = "writing"
    /\ writers[t].plan = <<>>
    /\ locks' = IF writers[t].fn \in SynchronizedWriters
                   /\ ~writers[t].raised
                THEN [locks EXCEPT ![writers[t].uuid] = None]
                ELSE locks
    /\ writers' = [writers EXCEPT ![t] =
                      [NoWriter EXCEPT !.uuid = writers[t].uuid,
                                       !.raised = writers[t].raised,
                                       !.plugin_error =
                                           writers[t].plugin_error]]
    /\ UNCHANGED xenstore
    /\ UNCHANGED <<lifecycle_vars, race_vars>>

\* The writer function returns or raises; utils.synchronized releases the
\* lock either way.  The thread is back in its caller, with the error if
\* there was one.
ReturnFromWriter(t) ==
    /\ writers[t].pc = "writing"
    /\ writers[t].plan = <<>>
    /\ locks' = IF writers[t].fn \in SynchronizedWriters
                THEN [locks EXCEPT ![writers[t].uuid] = None]
                ELSE locks
    /\ writers' = [writers EXCEPT ![t] =
                      [NoWriter EXCEPT !.uuid = writers[t].uuid,
                                       !.raised = writers[t].raised,
                                       !.plugin_error =
                                           writers[t].plugin_error]]
    /\ UNCHANGED xenstore
    /\ UNCHANGED <<lifecycle_vars, race_vars>>

XenstoreNext ==
    \E t \in Writers :
       \/ CallWriter(t)
       \/ AcquireLock(t)
       \/ RemoteCall(t)
       \/ ReturnFromWriter(t)

\* The writers on their own, on a hypervisor with the running VM of one
\* instance.
XenstoreInit ==
    /\ Init
    /\ instance = [kernel_id |-> FALSE, ramdisk_id |-> FALSE]
    /\ vms = HypInstance("Running").vms

XenstoreSpec == XenstoreInit /\ [][XenstoreNext]_vars

\* ======================================================= concurrent spawns
\* Two threads that call spawn with the same name label at once.  Every
\* remote call is a point where the calling thread yields to the other;
\* only the VM records are followed.

\* The steps of _spawn before and after the VM record is created.
StepsBeforeCreate ==
    <<"determine_disk_image_type_step", "create_disks_step",
      "create_kernel_ramdisk_step">>
StepsAfterCreate ==
    <<"attach_disks_step", "inject_instance_data_step",
      "setup_network_step", "boot_instance_step",
      "configure_booted_instance_step",
      "apply_security_group_filters_step">>

\* _spawn: _ensure_instance_name_unique raises when the name resolves to a
\* VM, _ensure_enough_free_mem when memory is short; then the steps start.
Spawner_spawn(t) ==
    /\ spawners[t].pc = "idle"
    /\ \E enough_free_mem \in BOOLEAN :
         spawners' = [spawners EXCEPT ![t] =
            IF lookup(vms, Name) # None
            THEN [@ EXCEPT !.pc = "done", !.raised = "InstanceExists"]
            ELSE IF ~enough_free_mem
            THEN [@ EXCEPT !.pc = "done",
                           !.raised = "InsufficientFreeMemory"]
            ELSE [@ EXCEPT !.pc = StepsBeforeCreate[1]]]
    /\ UNCHANGED <<lifecycle_vars, xenstore_vars>>

\* A step before the VM record exists: it is done, or it raises and the
\* rollback has no VM to destroy.
SpawnerStepBeforeCreate(t) ==
    /\ Occurs(StepsBeforeCreate, spawners[t].pc)
    /\ LET i == Index(StepsBeforeCreate, spawners[t].pc) IN
       \/ spawners' = [spawners EXCEPT ![t].pc =
             IF i < Len(StepsBeforeCreate) THEN StepsBeforeCreate[i + 1]
             ELSE "create_vm_record_step"]
       \/ spawners' = [spawners EXCEPT ![t].pc = "done",
                                       ![t].raised = spawners[t].pc]
    /\ UNCHANGED <<lifecycle_vars, xenstore_vars>>

\* create_vm_record_step: _create_vm_record creates the VM record with the
\* name label; nothing looks the name up again.
Spawner_create_vm_record(t) ==
    /\ spawners[t].pc = "create_vm_record_step"
    /\ vms' = [vms EXCEPT ![FreshRef(vms)] =
                  [name |-> Name, power |-> "Halted", bootlock |-> FALSE]]
    /\ spawners' = [spawners EXCEPT ![t].pc = StepsAfterCreate[1],
                                    ![t].vm_ref = FreshRef(vms)]
    /\ UNCHANGED <<pc, op, instance, vdis, vbds, files, vm_ref, undo_stack,
                   registered, undo_ran, step_info, emitted, steps_run,
                   calls, polls, chains, raised>>
    /\ UNCHANGED xenstore_vars

\* A step after the VM record exists: it is done (boot_instance_step
\* starts the VM), or it raises and undo_create_vm destroys the VM of this
\* spawn.
SpawnerStepAfterCreate(t) ==
    /\ Occurs(StepsAfterCreate, spawners[t].pc)
    /\ LET i == Index(StepsAfterCreate, spawners[t].pc)
           ref == spawners[t].vm_ref
       IN  \/ /\ spawners' = [spawners EXCEPT ![t].pc =
                    IF i < Len(StepsAfterCreate) THEN StepsAfterCreate[i + 1]
                    ELSE "done"]
              /\ vms' = IF spawners[t].pc = "boot_instance_step"
                        THEN [vms EXCEPT ![ref].power = "Running"]
                        ELSE vms
           \/ /\ spawners' = [spawners EXCEPT ![t].pc = "done",
                                              ![t].raised = spawners[t].pc,
                                              ![t].vm_ref = None]
              /\ vms' = [vms EXCEPT ![ref] = NoVM]
    /\ UNCHANGED <<pc, op, instance, vdis, vbds, files, vm_ref, undo_stack,
                   registered, undo_ran, step_info, emitted, steps_run,
                   calls, polls, chains, raised>>
    /\ UNCHANGED xenstore_vars

SpawnRaceNext ==
    \E t \in Spawners :
       \/ Spawner_spawn(t)
       \/ SpawnerStepBeforeCreate(t)
       \/ Spawner_create_vm_record(t)
       \/ SpawnerStepAfterCreate(t)

\* The spawns on their own, on a hypervisor without VMs.
SpawnRaceInit ==
    /\ Init
    /\ instance = [kernel_id |-> FALSE, ramdisk_id |-> FALSE]
    /\ vms = HypEmpty.vms

SpawnRaceSpec == SpawnRaceInit /\ [][SpawnRaceNext]_vars

\* ================================================================= claims
Reverse(s) == [i \in 1..Len(s) |-> s[Len(s) + 1 - i]]
UndoNames(ran) == [i \in 1..Len(ran) |-> ran[i].undo]
IsPrefix(a, b) == Len(a) <= Len(b) /\ a = SubSeq(b, 1, Len(a))

\* The order in which the specification lists the steps of the spawn
\* pipeline.
PipelineOrder ==
    <<"determine_disk_image_type_step", "create_disks_step",
      "create_kernel_ramdisk_step", "create_vm_record_step",
      "attach_disks_step", "inject_instance_data_step",
      "setup_network_step", "boot_instance_step",
      "configure_booted_instance_step",
      "apply_security_group_filters_step">>

\* The same with the rescue step where the try block of _spawn runs it.
RescueOrder ==
    SubSeq(PipelineOrder, 1, 7) \o <<"attach_root_disk_step">> \o
    SubSeq(PipelineOrder, 8, 10)

OrderOf(o) == IF o.rescue THEN RescueOrder ELSE PipelineOrder

\* The places outside the try block of a pipeline that raise: the checks
\* before it and the detach of the block devices after it.
OutsideTrySites ==
    {"_spawn", "rescue", "migrate_disk_and_power_off",
     "_ensure_not_resize_down_ephemeral", "_apply_orig_vm_name_label",
     "_detach_block_devices_from_orig_vm"}

\* An operation of the spawn family ended with a failure of its pipeline.
SpawnPipelineFailed ==
    /\ pc = "done"
    /\ op.kind \in SpawnKinds
    /\ raised # NoError
    /\ raised.at \notin OutsideTrySites

\* The step (or callback) whose error started the rollback, told from the
\* steps that completed: a step body that raised is the step after the last
\* completed one, a progress write that raised belongs to the last one.
OriginOfFailure ==
    IF raised.kind = "StepError"
    THEN OrderOf(op)[Len(steps_run) + 1]
    ELSE IF op.counted THEN steps_run[Len(steps_run)]
    ELSE "completed_callback"

\* No remote call failed while the rollback ran.
RollbackCallsSucceeded ==
    \A i \in 1..Len(undo_ran) :
        undo_ran[i].outcome \in {"ok", "InstanceUnacceptable"}

\* C1: when a spawn pipeline fails at step k, the compensations registered
\* through undo_with (by the steps before k and by k before it raised) run
\* exactly once each, in the reverse order of their registration, and the
\* caller observes the error of step k, not an error of the rollback.
C1_RollbackReverseExactlyOnce ==
    /\ (pc = "rollback" /\ op.kind \in SpawnKinds) =>
          UndoNames(undo_ran) \o Reverse(undo_stack) = Reverse(registered)
    /\ SpawnPipelineFailed =>
          /\ undo_stack = <<>>
          /\ UndoNames(undo_ran) = Reverse(registered)
          /\ raised.kind \in {"StepError", "ProgressError"}
          /\ raised.at = OriginOfFailure

\* C1 witness: the progress write of create_vm_record_step raised after the
\* step had registered undo_create_vm, and three compensations ran.
C1_Witness ==
    /\ SpawnPipelineFailed
    /\ raised.kind = "ProgressError"
    /\ raised.at = "create_vm_record_step"
    /\ Len(undo_ran) = 3

\* C2: after a spawn failed and its rollback ran (here: with no remote call
\* of the rollback failing), no VM resolves to the spawn's name label, the
\* disks it created other than osvol volumes are destroyed and its
\* kernel/ramdisk files are removed.
C2_NothingRemainsAfterRollback ==
    (SpawnPipelineFailed /\ op.first_boot /\ RollbackCallsSucceeded) =>
        /\ lookup(vms, op.name_label) = None
        /\ "root" \in vdis => op.root_osvol
        /\ "gen" \notin vdis
        /\ files = {}

\* C3: once a rollback has begun every remaining compensation runs, also
\* after one of them raised: at the end of a failed spawn or resize down
\* every registered compensation was invoked and the ledger is empty.
C3_UnwindNeverAborted ==
    /\ (pc = "rollback" /\ undo_ran # <<>>) =>
          IsPrefix(UndoNames(undo_ran), Reverse(registered))
    /\ (pc = "done" /\ op.kind \in SpawnKinds \cup {"resize_down"}
           /\ raised # NoError /\ raised.at \notin OutsideTrySites) =>
          /\ undo_stack = <<>>
          /\ \A i \in 1..Len(registered) :
                Occurs(UndoNames(undo_ran), registered[i])

\* C3 witness: in a resize down cleanup_vdi_copy raised and restore_orig_vm
\* was still invoked after it.
C3_Witness ==
    /\ pc = "done"
    /\ op.kind = "resize_down"
    /\ Len(undo_ran) = 2
    /\ undo_ran[1] = [undo |-> "cleanup_vdi_copy", outcome |-> "raised"]
    /\ undo_ran[2].undo = "restore_orig_vm"

\* The kinds of error a step of a pipeline raises.
StepErrorKinds == {"StepError", "ProgressError", "ResizeError"}

\* C4: when a step of spawn, finish_migration, resize down or resize up
\* raises, the caller gets that error marked as rolled back, also when a
\* compensation or the restore of the original VM failed.
C4_OriginalErrorReraisedWrapped ==
    (pc = "done" /\ op.kind \in SpawnKinds \cup {"resize_down", "resize_up"}
        /\ raised # NoError /\ raised.at \notin OutsideTrySites) =>
        /\ raised.rolled_back
        /\ raised.kind \in StepErrorKinds
        /\ Occurs(steps_run, raised.at) => raised.kind = "ProgressError"

\* C4 witness: a resize up whose restore of the original VM raised.
C4_Witness ==
    /\ pc = "done"
    /\ op.kind = "resize_up"
    /\ raised.rolled_back
    /\ undo_ran # <<>>
    /\ undo_ran[Len(undo_ran)].outcome = "raised"

\* The steps of a plain first-boot spawn run in the order of the
\* specification, each after the ones before it completed, and the progress
\* written is 100 exactly for the tenth step.
SpawnOrderAndProgress ==
    op.kind = "spawn" =>
        /\ IsPrefix(steps_run, PipelineOrder)
        /\ Occurs(PipelineOrder, pc) =>
              steps_run = SubSeq(PipelineOrder, 1, Index(PipelineOrder, pc) - 1)
        /\ \A i \in 1..Len(emitted) :
              /\ emitted[i].step = i
              /\ emitted[i].progress = 100 <=> i = 10
        /\ (pc = "done" /\ raised = NoError) =>
              /\ steps_run = PipelineOrder
              /\ emitted[Len(emitted)].progress = 100

\* spawn returned to its caller without an error.
SpawnReturned == op.kind = "spawn" /\ pc = "done" /\ raised = NoError

\* C5 as stated: the ten steps in order, 100% exactly at the tenth, and the
\* VM is running when spawn returns.
C5_OrderProgressAndRunning ==
    /\ SpawnOrderAndProgress
    /\ SpawnReturned => vms[vm_ref].power = "Running"

\* C5 amended: as C5, the VM running when spawn returns unless the wait for
\* the running state timed out.
C5_OrderProgressAndRunningUnlessTimeout ==
    /\ SpawnOrderAndProgress
    /\ SpawnReturned => (vms[vm_ref].power = "Running" \/ polls = MaxPolls)

\* C5 witness: a spawn returned with all ten steps run and the VM running
\* after it was waited for.
C5_Witness ==
    /\ SpawnReturned
    /\ Len(steps_run) = 10
    /\ polls = 1
    /\ vms[vm_ref].power = "Running"

\* The total a run of an operation registers with its step decorator: the
\* steps of the spawn pipeline, or the offset 1 and the four steps of a
\* resize path.
RegisteredTotal(o) ==
    IF o.kind \in {"resize_down", "resize_up"} THEN 1 + 4
    ELSE Len(OrderOf(o))

\* C6: in one pipeline run every progress computation uses the same total,
\* the number of steps the step decorator registered (plus the offset), and
\* the percentage round(current/total*100) written never decreases.
C6_TotalFixedProgressMonotone ==
    (op.kind # "none" /\ op.counted) =>
        /\ \A i \in 1..Len(emitted) :
              /\ emitted[i].total = step_info.total
              /\ emitted[i].total = RegisteredTotal(op)
              /\ 2 * emitted[i].total * emitted[i].progress
                    <= 200 * emitted[i].step + emitted[i].total
              /\ 200 * emitted[i].step + emitted[i].total
                    < 2 * emitted[i].total * (emitted[i].progress + 1)
        /\ \A i, j \in 1..Len(emitted) :
              i < j => emitted[i].progress <= emitted[j].progress

\* C6 witness: a rescue wrote the progress of all its eleven steps.
C6_Witness ==
    /\ op.kind = "rescue"
    /\ Len(emitted) = 11
    /\ emitted[11].progress = 100
    /\ emitted[1].progress = 9

\* C7 as stated: with rescue set, attach_root_disk_step runs immediately
\* after create_vm_record_step and before boot_instance_step.
C7_AttachRootRightAfterCreateVm ==
    (op.rescue /\ Occurs(steps_run, "attach_root_disk_step")) =>
        /\ steps_run[Index(steps_run, "attach_root_disk_step") - 1]
              = "create_vm_record_step"
        /\ Occurs(steps_run, "boot_instance_step") =>
              Index(steps_run, "attach_root_disk_step")
                 < Index(steps_run, "boot_instance_step")

\* C7 amended: with rescue set, attach_root_disk_step runs after
\* create_vm_record_step, directly after setup_network_step and directly
\* before boot_instance_step; the boot never runs without it.
C7_AttachRootRightBeforeBoot ==
    op.rescue =>
        /\ Occurs(steps_run, "attach_root_disk_step") =>
              /\ steps_run[Index(steps_run, "attach_root_disk_step") - 1]
                    = "setup_network_step"
              /\ Index(steps_run, "create_vm_record_step")
                    < Index(steps_run, "attach_root_disk_step")
        /\ Occurs(steps_run, "boot_instance_step") =>
              steps_run[Index(steps_run, "boot_instance_step") - 1]
                 = "attach_root_disk_step"
        /\ pc \in {"boot_instance_step", "_wait_for_instance_to_start"} =>
              steps_run[Len(steps_run)] = "attach_root_disk_step"

\* C7 witness: the rescue VM was booted with the original root disk
\* attached.
C7_Witness ==
    /\ op.rescue
    /\ Occurs(steps_run, "boot_instance_step")
    /\ <<vm_ref, "orig_root">> \in vbds

\* spawn ended on one of the two checks _spawn makes before its steps.
SpawnRefused ==
    /\ op.kind = "spawn"
    /\ pc = "done"
    /\ raised.kind \in {"InstanceExists", "InsufficientFreeMemory"}

\* C8: spawn on a name that resolves to a VM fails with InstanceExists and
\* spawn without enough free memory with InsufficientFreeMemory; then no
\* step ran, no remote call was made, no compensation was registered and no
\* progress was written.
C8_SpawnRefusedBeforeAnyStep ==
    /\ [](SpawnRefused =>
            /\ steps_run = <<>>
            /\ calls = <<>>
            /\ registered = <<>>
            /\ emitted = <<>>
            /\ vm_ref = None
            /\ ~raised.rolled_back)
    /\ [][(pc = "_spawn" /\ op.kind = "spawn"
              /\ lookup(vms, op.name_label) # None) =>
            (pc' = "done" /\ raised'.kind = "InstanceExists"
              /\ UNCHANGED hyp)]_vars
    /\ [][(pc = "_spawn" /\ op.kind = "spawn" /\ pc' # "done") =>
            lookup(vms, op.name_label) = None]_vars

\* C8 witness: a spawn refused for a duplicate name.
C8_Witness ==
    /\ SpawnRefused
    /\ raised.kind = "InstanceExists"
    /\ lookup(vms, Name) # None

\* A resize down ended with a failure of one of its steps.
ResizeDownFailed ==
    /\ pc = "done"
    /\ op.kind = "resize_down"
    /\ raised # NoError
    /\ raised.at \notin OutsideTrySites

\* The original VM is back in place: it has its name again and is in the
\* power state it had before the resize. (The resize never takes the
\* bootlock, so the VM is as bootable as it was.)
OriginalRestored ==
    /\ vms[vm_ref].name = Name
    /\ vms[vm_ref].power = op.was_power

\* C9: after any failure of resize down, the failure of
\* rename_and_power_off_vm included, the original VM has its name again, is
\* bootable and is in the power state it had before the resize (here: with
\* no remote call of the rollback failing).
C9_ResizeDownRestoresOriginal ==
    (ResizeDownFailed /\ RollbackCallsSucceeded) =>
        OriginalRestored

\* C10: a resize down that failed in the disk copy or its transfer leaves
\* the VM under its original name, in the power state it had before the
\* resize, and the partial copy deleted (here: with no remote call of the
\* rollback failing).
C10_ResizeDownCopyFailureRestores ==
    (ResizeDownFailed /\ RollbackCallsSucceeded
        /\ raised.at \in {"create_copy_vdi_and_resize",
                          "transfer_vhd_to_dest"}
        /\ raised.kind = "StepError") =>
        /\ vms[vm_ref].name = Name
        /\ vms[vm_ref].power = op.was_power
        /\ "copy" \notin vdis

\* A resize up ended with a failure of the path itself: the rename to
\* name-orig or anything after it inside _migrate_disk_resizing_up.
ResizeUpFailed ==
    /\ pc = "done"
    /\ op.kind = "resize_up"
    /\ raised # NoError
    /\ raised.at # "_detach_block_devices_from_orig_vm"

\* The restore of the original VM was invoked by the handler of resize up.
RestoreInvoked ==
    Occurs(UndoNames(undo_ran), "_restore_orig_vm_and_cleanup_orphan")

\* C11: after any failure of resize up, from the rename to name-orig on,
\* the restore of the original VM was invoked (and, with no remote call of
\* it failing, the VM has its name again and is running) and the caller
\* has the original error marked as rolled back.
C11_ResizeUpFailureRestoresAndWraps ==
    ResizeUpFailed =>
        /\ raised.rolled_back
        /\ RestoreInvoked
        /\ RollbackCallsSucceeded =>
              /\ vms[vm_ref].name = Name
              /\ vms[vm_ref].power = "Running"
              /\ lookup(vms, OrigName) = None

\* C12: a migrate_disk_and_power_off that failed after the rename to
\* name-orig, the final detach of the block devices included, leaves the VM
\* under its original name (here: with no remote call of the recovery
\* failing); and finish_revert_migration, when it returns, leaves no VM
\* called name-orig.
C12_OrigSuffixRemovedOnFailure ==
    /\ (pc = "done" /\ op.kind \in {"resize_down", "resize_up"}
           /\ raised # NoError /\ RollbackCallsSucceeded) =>
          /\ vms[vm_ref].name = Name
          /\ lookup(vms, OrigName) = None
    /\ (pc = "done" /\ op.kind = "finish_revert_migration"
           /\ raised = NoError) =>
          lookup(vms, OrigName) = None

\* The places where suspend, rescue and soft_delete fail before the
\* bootlock is set.
BeforeBootlockSites == {"rescue", "_get_vm_opaque_ref", "_acquire_bootlock"}

\* C13: when suspend, rescue or soft_delete (here: of a VM that was
\* running) fails after it set the bootlock, the bootlock is released
\* before the error reaches the caller.
C13_BootlockReleasedOnFailure ==
    (pc = "done" /\ op.kind \in {"suspend", "rescue", "soft_delete"}
        /\ op.was_power = "Running"
        /\ raised # NoError /\ raised.at \notin BeforeBootlockSites) =>
        ~vms[lookup(vms, Name)].bootlock

\* How often x occurs in a sequence.
Count(seq, x) == Cardinality({i \in 1..Len(seq) : seq[i] = x})

\* The positions of resize up before the VM is powered down.
ResizeUpBeforePowerDown ==
    {"resize_up_apply_orig_vm_name_label",
     "fake_step_to_show_snapshot_complete", "transfer_immutable_vhds",
     "transfer_ephemeral_disks_then_all_leaf_vdis",
     "_process_ephemeral_chain_recursive",
     "power_down_and_transfer_leaf_vhds"}

\* C14: resize up shuts the VM down only after the immutable chains of the
\* root disk and of every ephemeral disk were transferred: up to the
\* power-down step no shutdown is called and the power state is untouched,
\* the step is entered with no chain left, and after a shutdown or a leaf
\* transfer no snapshot is taken and no immutable chain is transferred.
C14_ShutdownAfterImmutableTransfers ==
    op.kind = "resize_up" =>
        /\ pc \in ResizeUpBeforePowerDown =>
              /\ ~Occurs(calls, "VM.shutdown")
              /\ ~Occurs(calls, "migrate_vhd_leaf")
              /\ vms[vm_ref].power = op.was_power
        /\ (pc = "power_down_and_transfer_leaf_vhds"
               \/ Occurs(calls, "VM.shutdown")
               \/ Occurs(calls, "migrate_vhd_leaf")) =>
              /\ chains.left = 0
              /\ Count(calls, "migrate_vhd_immutable") = 1 + chains.active
        /\ \A i, j \in 1..Len(calls) :
              (i < j /\ calls[i] \in {"VM.shutdown", "migrate_vhd_leaf"}) =>
                 calls[j] \notin {"snapshot_attached_here",
                                  "migrate_vhd_immutable"}

\* C14 witness: a running VM with two ephemeral disks was shut down by the
\* power-down step and its leaves were transferred.
C14_Witness ==
    /\ op.kind = "resize_up"
    /\ op.was_power = "Running"
    /\ chains.active = 2
    /\ Occurs(calls, "VM.shutdown")
    /\ Occurs(calls, "migrate_vhd_leaf")

\* The resize path of a resize up completed.
ResizeUpPathCompleted ==
    /\ op.kind = "resize_up"
    /\ Occurs(steps_run, "transfer_ephemeral_disks_then_all_leaf_vdis")

\* C15: a resize up of a VM with n ephemeral disks takes n+1 snapshots,
\* each with a transfer of the immutable chain, all of them before the one
\* power-down step, which transfers the n+1 leaves.
C15_SnapshotsThenOnePowerDown ==
    ResizeUpPathCompleted =>
        LET n == chains.left + chains.active IN
        /\ Count(calls, "snapshot_attached_here") = n + 1
        /\ Count(calls, "migrate_vhd_immutable") = n + 1
        /\ Count(steps_run, "power_down_and_transfer_leaf_vhds") = 1
        /\ Count(calls, "migrate_vhd_leaf") = n + 1
        /\ \A i, j \in 1..Len(calls) :
              (calls[i] \in {"snapshot_attached_here",
                             "migrate_vhd_immutable"}
                 /\ calls[j] = "migrate_vhd_leaf") => i < j

\* C15 witness: a resize up of a VM with two ephemeral disks completed
\* with three snapshots and three leaf transfers.
C15_Witness ==
    /\ ResizeUpPathCompleted
    /\ pc = "done"
    /\ raised = NoError
    /\ chains.active = 2
    /\ Count(calls, "snapshot_attached_here") = 3
    /\ Count(calls, "migrate_vhd_leaf") = 3

\* The shutdown of resize down failed: the rename-and-power-off step
\* raised ResizeError.
ResizeDownShutdownFailed ==
    /\ op.kind = "resize_down"
    /\ raised.kind = "ResizeError"
    /\ raised.at = "rename_and_power_off_vm"

\* C16: when the VM cannot be shut down in resize down, the step raises
\* ResizeError, which reaches the caller, and no disk operation is
\* attempted: no copy, no resize, no transfer, and the VM is not renamed.
C16_ShutdownFailureNoDiskOperation ==
    /\ [](ResizeDownShutdownFailed =>
            /\ calls = <<"VM.shutdown">>
            /\ "copy" \notin vdis
            /\ steps_run = <<"fake_step_to_match_resizing_up">>
            /\ registered = <<>>
            /\ vms[vm_ref].name = Name
            /\ pc \in {"rollback", "done"})
    /\ [][(pc = "rename_and_power_off_vm"
              /\ ~is_vm_shutdown(vms', vm_ref)) =>
            (pc' = "rollback" /\ raised'.kind = "ResizeError"
               /\ UNCHANGED <<hyp, steps_run>>)]_vars

\* C16 witness: the caller has the ResizeError of a resize down whose VM
\* could not be shut down and is still running.
C16_Witness ==
    /\ ResizeDownShutdownFailed
    /\ pc = "done"
    /\ raised.rolled_back
    /\ vms[vm_ref].power = "Running"

\* migrate_disk_and_power_off ended on one of its validation faults: a
\* smaller ephemeral disk, or a root disk of 0 GB for one that has a size.
ResizeValidationFault ==
    /\ pc = "done"
    /\ raised.kind = "ResizeError"
    /\ raised.at \in {"_ensure_not_resize_down_ephemeral",
                      "migrate_disk_and_power_off"}

\* C17: a validation fault of a resize is raised before anything is done
\* to the VM: it is not looked up, no remote call is made, no step runs,
\* nothing is registered for rollback and no rollback runs, and the
\* hypervisor is as it was.
C17_ValidationFaultBeforeAnyChange ==
    /\ [](ResizeValidationFault =>
            /\ vm_ref = None
            /\ calls = <<>>
            /\ steps_run = <<>>
            /\ registered = <<>>
            /\ undo_ran = <<>>
            /\ ~raised.rolled_back)
    /\ [][ResizeValidationFault' => UNCHANGED hyp]_vars

\* C17 witness: a resize of a running VM to a root disk of 0 GB was
\* refused.
C17_Witness ==
    /\ ResizeValidationFault
    /\ raised.at = "migrate_disk_and_power_off"
    /\ lookup(vms, Name) # None
    /\ vms[lookup(vms, Name)].power = "Running"

\* The steps of the two resize paths.
ResizeDownSteps ==
    {"fake_step_to_match_resizing_up", "rename_and_power_off_vm",
     "create_copy_vdi_and_resize", "transfer_vhd_to_dest"}

ResizeUpSteps ==
    {"fake_step_to_show_snapshot_complete", "transfer_immutable_vhds",
     "transfer_ephemeral_disks_then_all_leaf_vdis",
     "power_down_and_transfer_leaf_vhds"}

\* C18: migrate_disk_and_power_off takes the resize-down path exactly when
\* the new root disk is smaller than the old one, else (equal sizes
\* included) the resize-up path, and only steps of the path taken run.
C18_PathBySizeComparison ==
    /\ op.kind = "resize_down" =>
          /\ op.new_gb < op.old_gb
          /\ \A i \in 1..Len(steps_run) : steps_run[i] \in ResizeDownSteps
          /\ pc # "resize_up_except"
    /\ op.kind = "resize_up" =>
          /\ op.new_gb >= op.old_gb
          /\ \A i \in 1..Len(steps_run) : steps_run[i] \in ResizeUpSteps
          /\ pc # "rollback"

\* C18 witness: a resize to the same root disk size ran the resize-up
\* path to its end.
C18_Witness ==
    /\ op.kind = "resize_up"
    /\ op.new_gb = op.old_gb
    /\ op.old_gb > 0
    /\ pc = "done"
    /\ raised = NoError
    /\ Len(steps_run) = 4

\* destroy was called on a name that resolves to no VM.
DestroyOfMissing == op.kind = "destroy" /\ vm_ref = None

\* C19: destroy on a name that resolves to no VM returns without an error
\* and without a state-changing remote call: the hypervisor is as it was,
\* also when the VM is missing because a destroy removed it before.
C19_DestroyOfMissingIsNoOp ==
    /\ [](DestroyOfMissing =>
            /\ calls = <<>>
            /\ raised = NoError
            /\ pc \in {"_destroy", "done"})
    /\ [][(DestroyOfMissing' /\ pc' # pc) => UNCHANGED hyp]_vars
    /\ [][(DestroyOfMissing /\ pc = "_destroy") => pc' = "done"]_vars

\* The remote calls of the teardown of a rescue VM.
RescueCalls ==
    {"rescue.VM.hard_shutdown", "rescue.VDI.destroy", "rescue.VM.destroy"}

\* C19 amended: destroy on a name that resolves to no VM, with no rescue VM
\* of that name either, returns without an error and without a
\* state-changing remote call, also after an earlier destroy; when a rescue
\* VM exists, its teardown is all that destroy does, and only that
\* teardown can raise.
C19_DestroyOfMissingOnlyRescueTeardown ==
    /\ [](DestroyOfMissing =>
            /\ \A i \in 1..Len(calls) : calls[i] \in RescueCalls
            /\ raised.at \in {"none", "_destroy_rescue_instance"}
            /\ pc \in {"_destroy", "done"})
    /\ [][(DestroyOfMissing' /\ pc' # pc /\ pc # "_destroy"
              /\ lookup(vms, RescueName) = None) =>
            (calls' = <<>> /\ raised' = NoError /\ UNCHANGED hyp)]_vars
    /\ [][(DestroyOfMissing /\ pc = "_destroy") =>
            (pc' = "done" /\ UNCHANGED <<hyp, calls, raised>>)]_vars

\* C19 witness: destroy returned for a name that resolves to no VM, on a
\* hypervisor that still has the disk an earlier destroy without disk
\* teardown left behind.
C19_Witness ==
    /\ DestroyOfMissing
    /\ pc = "done"
    /\ raised = NoError
    /\ lookup(vms, Name) = None
    /\ "orig_root" \in vdis
    /\ \A r \in VMRefs : vms[r] = NoVM

\* The remote calls of _destroy in the order of its stages, with and
\* without the teardown of the disks.
DestroyStages(destroy_disks) ==
    IF destroy_disks
    THEN <<"VM.hard_shutdown", "detach_all", "VDI.destroy",
           "destroy_kernel_ramdisk", "VM.destroy", "unplug_vifs",
           "unfilter_instance">>
    ELSE <<"VM.hard_shutdown", "VM.destroy", "unplug_vifs",
           "unfilter_instance">>

\* The calls made on the VM itself, without those of the teardown of a
\* rescue VM that destroy does first.
OwnCalls(cs) == SelectSeq(cs, LAMBDA c : c \notin RescueCalls)

\* C20: destroy of a present VM goes through its stages in this order:
\* hard shutdown; with disk teardown detach all, destroy the disks,
\* kernel/ramdisk removal; removal of the VM record; unplug of the network
\* and unfilter.  All of them when it returns, a prefix when it raised; the
\* record is never removed before the shutdown.
C20_DestroyStagesInOrder ==
    (op.kind = "destroy" /\ vm_ref # None /\ pc = "done") =>
        /\ IsPrefix(OwnCalls(calls), DestroyStages(op.destroy_disks))
        /\ raised = NoError =>
              OwnCalls(calls) = DestroyStages(op.destroy_disks)
        /\ Occurs(calls, "VM.destroy") =>
              Index(calls, "VM.hard_shutdown") < Index(calls, "VM.destroy")
        /\ lookup(vms, Name) = None => Occurs(calls, "VM.destroy")
        /\ (raised.at = "_destroy") =>
              /\ ~Occurs(calls, "VM.destroy")
              /\ lookup(vms, Name) = vm_ref

\* C20 witness: a destroy with disk teardown on a running VM went through
\* all seven stages and the VM record and its disk are gone.
C20_Witness ==
    /\ op.kind = "destroy"
    /\ op.destroy_disks
    /\ op.was_power = "Running"
    /\ pc = "done"
    /\ raised = NoError
    /\ Len(OwnCalls(calls)) = 7
    /\ lookup(vms, Name) = None
    /\ "orig_root" \notin vdis

\* destroy reached _destroy with a VM and returned or raised without a
\* failure of a remote call.
DestroyOfPresentEnded ==
    /\ pc = "done"
    /\ op.kind = "destroy"
    /\ vm_ref # None
    /\ raised.at # "_destroy_rescue_instance"

\* C21 as stated: destroy of a VM whose instance has exactly one of kernel
\* and ramdisk raises InstanceUnacceptable; with neither or both it goes on
\* to the removal of the VM record.
C21_OneOfKernelRamdiskAlwaysRaises ==
    (DestroyOfPresentEnded /\ raised.kind # "XenAPIFailure") =>
        /\ (instance.kernel_id # instance.ramdisk_id) =>
              raised.kind = "InstanceUnacceptable"
        /\ (instance.kernel_id = instance.ramdisk_id) =>
              (raised = NoError /\ Occurs(calls, "VM.destroy"))

\* C21 amended: a destroy with disk teardown raises InstanceUnacceptable
\* exactly when the instance has one of kernel and ramdisk without the
\* other, after the shutdown and the removal of the disks and with the VM
\* record left in place; a destroy without disk teardown never looks at
\* them.  Whenever destroy returns it removed the VM record.
C21_OneOfKernelRamdiskRaisesWithDiskTeardown ==
    (DestroyOfPresentEnded /\ raised.kind # "XenAPIFailure") =>
        /\ raised.kind = "InstanceUnacceptable" <=>
              (op.destroy_disks /\ instance.kernel_id # instance.ramdisk_id)
        /\ raised.kind = "InstanceUnacceptable" =>
              /\ OwnCalls(calls) = <<"VM.hard_shutdown", "detach_all",
                                     "VDI.destroy">>
              /\ lookup(vms, Name) = vm_ref
        /\ raised.kind # "InstanceUnacceptable" =>
              (raised = NoError /\ Occurs(calls, "VM.destroy"))

\* C21 witness: a destroy with disk teardown of an instance with a kernel
\* and no ramdisk raised InstanceUnacceptable.
C21_Witness ==
    /\ DestroyOfPresentEnded
    /\ op.destroy_disks
    /\ instance.kernel_id /\ ~instance.ramdisk_id
    /\ raised.kind = "InstanceUnacceptable"
    /\ vms[vm_ref].name = Name

\* The error rescue raises for an instance that is already in rescue mode.
AlreadyInRescueMode == Error("RuntimeError", "rescue")

\* C22: rescue of an instance that already has a rescue VM raises and
\* leaves the original VM alone: no shutdown, no bootlock, no remote call
\* at all and no step of the spawn pipeline.
C22_RescueOfRescuedRaisesUntouched ==
    /\ [][(pc = "idle" /\ lookup(vms, RescueName) # None) =>
            op'.kind # "rescue"]_vars
    /\ [][(pc = "idle" /\ raised' = AlreadyInRescueMode) =>
            /\ lookup(vms, RescueName) # None
            /\ pc' = "done"
            /\ calls' = <<>>
            /\ steps_run' = <<>>
            /\ UNCHANGED <<hyp, op, step_info, undo_stack>>]_vars
    /\ [][(raised = AlreadyInRescueMode /\ raised' = raised) =>
            UNCHANGED <<hyp, calls, steps_run>>]_vars

\* C22 witness: rescue raised for an instance with a rescue VM, and the
\* original VM and its bootlock are as they were.
C22_Witness ==
    /\ pc = "done"
    /\ raised = AlreadyInRescueMode
    /\ lookup(vms, RescueName) # None
    /\ lookup(vms, Name) # None
    /\ calls = <<>>
    /\ steps_run = <<>>

\* The error unrescue raises for an instance without a rescue VM.
NotInRescueMode == Error("InstanceNotInRescueMode", "unrescue")

\* C23: unrescue of an instance without a rescue VM raises
\* InstanceNotInRescueMode; the bootlock is neither released nor touched
\* otherwise, no VM is started or destroyed, no remote call is made.
C23_UnrescueWithoutRescueVmRaisesUntouched ==
    /\ [][(pc \in Idle /\ op'.kind = "unrescue"
             /\ lookup(vms, RescueName) = None) =>
            /\ raised' = NotInRescueMode
            /\ pc' = "done"
            /\ calls' = <<>>
            /\ UNCHANGED hyp]_vars
    /\ [][(pc \in Idle /\ raised' = NotInRescueMode) =>
            (lookup(vms, RescueName) = None /\ UNCHANGED hyp)]_vars
    /\ [](raised = NotInRescueMode => (pc = "done" /\ calls = <<>>))

\* C23 witness: unrescue raised for a bootlocked VM without a rescue VM,
\* and the VM is still bootlocked and halted.
C23_Witness ==
    /\ pc = "done"
    /\ raised = NotInRescueMode
    /\ lookup(vms, RescueName) = None
    /\ lookup(vms, Name) # None
    /\ vms[lookup(vms, Name)].bootlock
    /\ vms[lookup(vms, Name)].power = "Halted"

\* C24: rescue of an instance without a rescue VM shuts the original VM
\* down, then sets its bootlock, then runs the spawn pipeline under the
\* rescue name: while the rescue VM exists in a rescue call, and whenever a
\* step of its pipeline ran, the original VM is halted and bootlocked and
\* the two calls came first in this order.
C24_RescueVmOnlyAfterShutdownAndBootlock ==
    (op.kind = "rescue" /\
        (lookup(vms, RescueName) # None \/ steps_run # <<>>)) =>
        /\ op.name_label = RescueName
        /\ IsPrefix(<<"VM.hard_shutdown", "VM.set_blocked_operations">>,
                    calls)
        /\ lookup(vms, Name) # None
        /\ vms[lookup(vms, Name)].bootlock
        /\ vms[lookup(vms, Name)].power = "Halted"

\* The remote calls of unrescue in their order; the shutdown of the rescue
\* VM is left out when it is shut down already.
UnrescueCalls ==
    <<"rescue.VDI.destroy", "rescue.VM.destroy",
      "VM.remove_from_blocked_operations", "VM.start_on">>

\* unrescue found the rescue VM and the original VM.
UnrescueOfRescued == op.kind = "unrescue" /\ vm_ref # None

\* C25: unrescue tears down the rescue VM, then releases the bootlock of
\* the original VM, then starts it, in this order, and the original VM is
\* never started while the record of the rescue VM exists; the teardown of
\* the rescue VM, in unrescue as in destroy, leaves the root disk of the
\* original VM in place and attached.
C25_UnrescueTearsDownReleasesStarts ==
    /\ [](UnrescueOfRescued =>
            /\ \/ IsPrefix(calls, UnrescueCalls)
               \/ IsPrefix(calls, <<"rescue.VM.hard_shutdown">>
                                     \o UnrescueCalls)
            /\ Occurs(calls, "VM.remove_from_blocked_operations") =>
                  lookup(vms, RescueName) = None
            /\ Occurs(calls, "VM.start_on") =>
                  lookup(vms, RescueName) = None
            /\ raised = NoError =>
                  /\ vms[vm_ref].name = Name
                  /\ vms[vm_ref].power = "Running"
                  /\ ~vms[vm_ref].bootlock
                  /\ Occurs(calls, "VM.start_on"))
    /\ [][(pc \in Idle /\ op'.kind \in {"unrescue", "destroy"}
             /\ lookup(vms, Name) # None
             /\ lookup(vms, RescueName) # None
             /\ <<lookup(vms, Name), "orig_root">> \in vbds
             /\ "orig_root" \in vdis) =>
            /\ "orig_root" \in vdis'
            /\ <<lookup(vms, Name), "orig_root">> \in vbds']_vars

\* C25 witness: unrescue returned; the rescue VM and its own disk are gone,
\* the root disk of the original VM is there, the original VM is running
\* without bootlock.
C25_Witness ==
    /\ UnrescueOfRescued
    /\ pc = "done"
    /\ raised = NoError
    /\ lookup(vms, RescueName) = None
    /\ "root" \notin vdis
    /\ "orig_root" \in vdis
    /\ <<vm_ref, "orig_root">> \in vbds
    /\ vms[vm_ref].power = "Running"
    /\ ~vms[vm_ref].bootlock

\* The calls a pipeline makes only on first boot.
FirstBootOnlyCalls ==
    {"get_vdis_for_instance", "inject_hostname",
     "configure_new_instance_with_agent", "remove_hostname"}

\* C26: finish_migration (first boot false) imports the migrated disks
\* instead of fetching them, never injects or removes the hostname, never
\* configures the agent, and attaches the mapped block devices right after
\* the disks in attach_disks_step; a first-boot pipeline (spawn, rescue)
\* fetches the disks and never attaches mapped block devices.
C26_NotFirstBootSkipsHostnameAndAgent ==
    /\ op.kind = "finish_migration" =>
          /\ ~op.first_boot
          /\ \A i \in 1..Len(calls) : calls[i] \notin FirstBootOnlyCalls
          /\ Occurs(steps_run, "create_disks_step") =>
                Occurs(calls, "import_all_migrated_disks")
          /\ Occurs(steps_run, "attach_disks_step") =>
                /\ Count(calls, "attach_mapped_block_devices") = 1
                /\ Index(calls, "attach_mapped_block_devices") =
                      Index(calls, "generate_disks") + 1
          /\ Occurs(calls, "attach_mapped_block_devices") =>
                Occurs(steps_run, "create_vm_record_step")
    /\ op.kind \in {"spawn", "rescue"} =>
          /\ op.first_boot
          /\ ~Occurs(calls, "attach_mapped_block_devices")
          /\ ~Occurs(calls, "import_all_migrated_disks")
          /\ Occurs(steps_run, "create_disks_step") =>
                Occurs(calls, "get_vdis_for_instance")
          /\ Occurs(steps_run, "inject_instance_data_step") =>
                Occurs(calls, "inject_hostname")
          /\ Occurs(steps_run, "configure_booted_instance_step") =>
                Occurs(calls, "configure_new_instance_with_agent")

\* C26 witness: finish_migration ran all its steps and returned.
C26_Witness ==
    /\ op.kind = "finish_migration"
    /\ pc = "done"
    /\ raised = NoError
    /\ Occurs(steps_run, "configure_booted_instance_step")
    /\ Occurs(calls, "attach_mapped_block_devices")
    /\ Occurs(calls, "import_all_migrated_disks")

\* reboot ended after a reboot call that failed.
RebootCallFailed == op.kind = "reboot" /\ pc = "done" /\ op.failure # <<>>

\* The failed reboot call is VM_BAD_POWER_STATE with 'halted' as its last
\* detail, or SR_BACKEND_FAILURE_46.
HaltedOrBadVolumes ==
    \/ Head(op.failure) = "VM_BAD_POWER_STATE"
          /\ op.failure[Len(op.failure)] = "halted"
    \/ Head(op.failure) = "SR_BACKEND_FAILURE_46"

\* The failure of the reboot call as the caller of reboot sees it.
RebootFailurePropagated ==
    /\ raised.kind = Head(op.failure)
    /\ raised.at \in {"VM.hard_reboot", "VM.clean_reboot"}
    /\ calls = <<raised.at>>
    /\ vms[vm_ref].power = op.was_power

\* C27 as stated: after a failed reboot call, reboot starts the VM and
\* returns without raising exactly when the failure is VM_BAD_POWER_STATE
\* with last detail 'halted' or SR_BACKEND_FAILURE_46; every other failure
\* reaches the caller unchanged and no start is attempted.
C27_RebootFallsBackAndReturns ==
    RebootCallFailed =>
        /\ HaltedOrBadVolumes =>
              (raised = NoError /\ Occurs(calls, "VM.start_on"))
        /\ ~HaltedOrBadVolumes => RebootFailurePropagated

\* C27 amended: after a failed reboot call, reboot calls _start exactly
\* when the failure is VM_BAD_POWER_STATE with last detail 'halted' or
\* SR_BACKEND_FAILURE_46; the failure of the reboot call is then dropped
\* and reboot returns without raising when _start does, while a failure of
\* _start itself reaches the caller.  Every other failure of the reboot
\* call reaches the caller unchanged and no start is attempted.
C27_RebootFallsBackToStart ==
    RebootCallFailed =>
        /\ HaltedOrBadVolumes =>
              /\ Len(calls) > 1
              /\ calls[2] \in {"find_bad_volumes", "VM.start_on"}
              /\ raised \in {NoError, Error("XenAPIFailure", "_start")}
              /\ raised = NoError =>
                    /\ Occurs(calls, "VM.start_on")
                    /\ vms[vm_ref].power = "Running"
        /\ ~HaltedOrBadVolumes => RebootFailurePropagated

\* C27 witness: the reboot of a halted VM failed with VM_BAD_POWER_STATE
\* ... 'halted', the VM was started instead and reboot returned.
C27_Witness ==
    /\ RebootCallFailed
    /\ op.failure = <<"VM_BAD_POWER_STATE", "ref", "running", "halted">>
    /\ op.was_power = "Halted"
    /\ raised = NoError
    /\ vms[vm_ref].power = "Running"
    /\ Occurs(calls, "VM.start_on")

\* An operation whose only start of a VM is one call of _start ended.
StartCalled == pc = "done" /\ op.kind \in {"reboot", "power_on"}

\* C28 as stated: with a bad-volume callback, _start detaches every bad
\* volume before VM.start_on and the callback is invoked with the detached
\* volumes after the start; without a callback no volume is looked for or
\* detached.
C28_CallbackInvokedAfterStart ==
    (StartCalled /\ Occurs(calls, "VM.start_on")) =>
        /\ op.bad_volumes_callback =>
              /\ op.detached = op.bad_devices
              /\ Count(calls, "detach_volume") = Cardinality(op.bad_devices)
              /\ \A i \in 1..Len(calls) : calls[i] = "detach_volume" =>
                    i < Index(calls, "VM.start_on")
              /\ raised = NoError =>
                    /\ op.callback_args = {op.detached}
                    /\ calls[Len(calls)] = "bad_volumes_callback"
        /\ ~op.bad_volumes_callback =>
              /\ op.detached = {}
              /\ ~Occurs(calls, "find_bad_volumes")
              /\ ~Occurs(calls, "detach_volume")
              /\ op.callback_args = {}

\* C28 amended: with a bad-volume callback, _start detaches every bad
\* volume before VM.start_on, and after a start that succeeded the callback
\* is invoked once with the detached volumes when there are any; it is not
\* invoked when no bad volume was found.  Without a callback no volume is
\* looked for or detached.
C28_CallbackInvokedWhenVolumesDetached ==
    (StartCalled /\ Occurs(calls, "VM.start_on")) =>
        /\ op.bad_volumes_callback =>
              /\ op.detached = op.bad_devices
              /\ Count(calls, "detach_volume") = Cardinality(op.bad_devices)
              /\ \A i \in 1..Len(calls) : calls[i] = "detach_volume" =>
                    i < Index(calls, "VM.start_on")
              /\ (raised = NoError /\ op.detached # {}) =>
                    /\ op.callback_args = {op.detached}
                    /\ calls[Len(calls)] = "bad_volumes_callback"
                    /\ Count(calls, "bad_volumes_callback") = 1
              /\ (raised # NoError \/ op.detached = {}) =>
                    /\ op.callback_args = {}
                    /\ ~Occurs(calls, "bad_volumes_callback")
        /\ ~op.bad_volumes_callback =>
              /\ op.detached = {}
              /\ ~Occurs(calls, "find_bad_volumes")
              /\ ~Occurs(calls, "detach_volume")
              /\ op.callback_args = {}

\* C28 witness: a start with a callback detached two bad volumes, started
\* the VM and handed both to the callback.
C28_Witness ==
    /\ StartCalled
    /\ op.bad_volumes_callback
    /\ raised = NoError
    /\ op.detached = BadVolumes
    /\ op.callback_args = {BadVolumes}
    /\ vms[vm_ref].power = "Running"
    /\ calls[Len(calls)] = "bad_volumes_callback"

\* The thread that runs _wait_for_instance_to_start is scheduled again
\* after each sleep of its loop.
LiveSpec == Spec /\ WF_vars(_wait_for_instance_to_start)

\* The pipeline is in the wait after the boot.
Waiting == pc = "_wait_for_instance_to_start"

\* C29: the wait for the VM to reach the running state always ends; it
\* goes on polling only while the VM is not running and the timeout has
\* not expired, and it ends, with the VM running or not, without an error
\* of its own: the body of the boot step completes and the pipeline goes
\* on with the next step, unless the progress update that the step
\* decorator writes after the body fails.
C29_WaitForStartTerminates ==
    /\ Waiting ~> ~Waiting
    /\ [](Waiting => (polls <= MaxPolls /\ raised = NoError))
    /\ [][(Waiting /\ Waiting' /\ polls' # polls) =>
            /\ vms[vm_ref].power # "Running"
            /\ polls < MaxPolls
            /\ polls' = polls + 1]_vars
    /\ [][(Waiting /\ ~Waiting') =>
            /\ vms[vm_ref].power = "Running" \/ polls = MaxPolls
            /\ steps_run' = Append(steps_run, "boot_instance_step")
            /\ \/ /\ pc' = "configure_booted_instance_step"
                  /\ raised' = NoError
               \/ /\ op.counted
                  /\ raised' = Error("ProgressError", "boot_instance_step")
            /\ UNCHANGED <<undo_stack, undo_ran, hyp>>]_vars

\* C29 witness: the wait ran into the timeout with the VM still not
\* running, and the pipeline went on to the next step without an error.
C29_Witness ==
    /\ pc = "configure_booted_instance_step"
    /\ polls = MaxPolls
    /\ vms[vm_ref].power # "Running"
    /\ raised = NoError
    /\ undo_ran = <<>>

\* A thread is inside the write section of a writer function.
InSection(t) == writers[t].pc = "writing"

\* A thread is between the remove and the add of one key.
MidUpdate(t) ==
    /\ InSection(t)
    /\ writers[t].plan # <<>>
    /\ Head(writers[t].plan).call = "VM.add_to_xenstore_data"

\* C30: the writers of the xenstore data of one instance exclude each
\* other: at most one thread per instance uuid is inside a write section,
\* and it holds the lock of that uuid; the xenstore data of an instance is
\* only changed by the holder of its lock, so between the remove and the
\* add of a key by one thread no other thread changes the data of that VM.
C30_XenstoreWritersMutuallyExclusive ==
    /\ [](\A t \in Writers : InSection(t) =>
            /\ locks[writers[t].uuid] = t
            /\ \A u \in Writers \ {t} :
                  InSection(u) => writers[u].uuid # writers[t].uuid)
    /\ [][\A i \in UUIDs : xenstore'[i] # xenstore[i] =>
            /\ locks[i] # None
            /\ InSection(locks[i])
            /\ writers'[locks[i]] # writers[locks[i]]
            /\ \A t \in Writers \ {locks[i]} : writers'[t] = writers[t]]_vars
    /\ [][\A t \in Writers :
            (MidUpdate(t) /\ writers'[t] = writers[t]) =>
               xenstore'[writers[t].uuid] = xenstore[writers[t].uuid]]_vars

\* C30 witness: one thread is between the remove and the add of the
\* hostname of an instance while another thread waits for the lock of the
\* same instance to write its metadata.
C30_Witness ==
    \E t, u \in Writers :
       /\ t # u
       /\ MidUpdate(t)
       /\ writers[t].fn = "_inject_hostname.update_hostname"
       /\ writers[u].pc = "waiting"
       /\ writers[u].fn = "update_meta"
       /\ writers[u].uuid = writers[t].uuid

\* A thread waits for the lock of its instance.
WaitingForLock(t) == writers[t].pc = "waiting"

\* C31: the lock of an instance is released on every exit of a writer
\* function, also when a remote call of it raised: a lock is only ever held
\* by a thread inside a writer function of that instance, and a thread
\* that leaves one leaves its lock free.  So a thread only waits while
\* another thread is inside a writer function of the same instance, never
\* for a writer of another instance or for one that failed.
C31_LockReleasedOnEveryExit ==
    /\ [](\A i \in UUIDs : locks[i] # None =>
            (InSection(locks[i]) /\ writers[locks[i]].uuid = i))
    /\ [](\A t \in Writers :
            (WaitingForLock(t) /\ ~LockFree(locks, writers[t].uuid)) =>
               \E u \in Writers \ {t} :
                  InSection(u) /\ writers[u].uuid = writers[t].uuid)
    /\ [][\A t \in Writers : (InSection(t) /\ ~InSection(t)') =>
            /\ locks'[writers[t].uuid] = None
            /\ writers'[t].raised = writers[t].raised]_vars

\* C31 witness: a writer of an instance failed and is back in its caller,
\* and another thread is inside a writer function of the same instance.
C31_Witness ==
    \E t, u \in Writers :
       /\ t # u
       /\ writers[t].pc = "idle"
       /\ writers[t].raised
       /\ InSection(u)
       /\ writers[u].uuid = writers[t].uuid
       /\ locks[writers[u].uuid] = u

\* The references of the storage repositories this call put in its map.
RefsOfMap == {op.sr_uuid_map[u] : u \in DOMAIN op.sr_uuid_map}

\* C32: when attach_block_device_volumes fails after connecting volumes,
\* every storage repository it put in its map is forgotten exactly once
\* and the error of the failed call is the one raised.
C32_FailedAttachForgetsConnectedSrs ==
    (pc = "done" /\ op.kind = "attach_block_device_volumes"
       /\ raised # NoError) =>
       /\ raised.at \in {"attach_volume", "SR.get_by_uuid"}
       /\ \A r \in RefsOfMap : Count(op.forgotten, r) = 1
       /\ \A k \in DOMAIN op.forgotten : op.forgotten[k] \in RefsOfMap

\* C33: an error of a plugin call made through _make_plugin_call reaches
\* the caller as a raised error: a writer function in which a plugin call
\* failed has raised, and the call has returned no value.
C33_PluginErrorsAreRaised ==
    \A t \in Writers :
       writers[t].plugin_error # "none" =>
          (writers[t].raised /\ writers[t].returned = "none")

\* A call of change_instance_metadata has ended.
MetadataChangeEnded == pc = "done" /\ op.kind = "change_instance_metadata"

\* C34: change_instance_metadata on an instance whose VM is not found
\* returns without raising and writes nothing.  On a VM that is not
\* running, the xenstore data of the VM record is still changed for every
\* key processed (all of the diff when the call returns): a removed key is
\* gone, an added key is there, and no call reaches the running domain;
\* the missing domid is not raised.
C34_MetadataChangeToleratesMissingVmAndDomId ==
    /\ [][(pc \in Idle /\ pc' = "done"
             /\ op'.kind = "change_instance_metadata" /\ ~op'.found) =>
             (raised' = NoError /\ UNCHANGED <<xenstore, hyp>>
                /\ op'.param_xenstore = op'.param_before
                /\ op'.live_calls = {})]_vars
    /\ [](MetadataChangeEnded /\ op.found /\ op.was_power # "Running" =>
            /\ op.live_calls = {}
            /\ raised.kind # "KeyError"
            /\ raised = NoError => op.processed = DOMAIN op.diff
            /\ \A k \in op.processed :
                  (k \in op.param_xenstore) <=> (op.diff[k] = "+"))

\* C34 witness: a diff that removes one key and adds another was applied to
\* a VM that is not running.
C34_Witness ==
    /\ MetadataChangeEnded
    /\ op.found
    /\ op.was_power = "Halted"
    /\ raised = NoError
    /\ \E j, k \in DOMAIN op.diff :
          /\ op.diff[j] = "-" /\ j \in op.param_before
          /\ op.diff[k] = "+" /\ k \notin op.param_before

\* C34 witness for the VM that is not found.
C34_WitnessNotFound ==
    MetadataChangeEnded /\ ~op.found /\ op.diff # <<>>

\* The VM records with the name label of the instance.
VmsNamed(name_label) == {r \in VMRefs : vms[r].name = name_label}

\* C35: after two concurrent spawns with the same name label have both
\* finished, at most one VM record has that name.
C35_NoDuplicateNameLabel ==
    (\A t \in Spawners : spawners[t].pc = "done") =>
       Cardinality(VmsNamed(Name)) <= 1

\* A rescue whose spawn failed at or after attach_root_disk_step, after the
\* disk of the original VM was attached to the rescue VM.
RescueFailedAfterAttach ==
    /\ pc = "done"
    /\ op.kind = "rescue"
    /\ raised # NoError
    /\ Occurs(registered, "undo_attach_root_disk")

\* C36 as stated: such a rescue never destroys the root disk of the
\* original VM, and undo_attach_root_disk runs before undo_create_vm.
C36_FailedRescueKeepsOriginalRootDisk ==
    RescueFailedAfterAttach =>
       /\ "orig_root" \in vdis
       /\ \A i, j \in DOMAIN undo_ran :
             (undo_ran[i].undo = "undo_create_vm"
                /\ undo_ran[j].undo = "undo_attach_root_disk") => j < i

\* The instance is in rescue: its rescue VM and its original VM exist.
RescueVmAndOriginalExist ==
    lookup(vms, RescueName) # None /\ lookup(vms, Name) # None

\* While the instance is in rescue the original VM has the bootlock.
OriginalBootlocked ==
    RescueVmAndOriginalExist => vms[lookup(vms, Name)].bootlock

\* C37: every step of rescue, unrescue and destroy keeps the original VM
\* bootlocked while the rescue VM and the original VM exist, and does not
\* start the original VM while the rescue VM is still there.  The states
\* the calls start from have it, so it holds under any sequence of these
\* calls, failed ones included.
C37_OriginalBootlockedWhileRescued ==
    [][(op'.kind \in {"rescue", "unrescue", "destroy"}
          /\ OriginalBootlocked) =>
          /\ OriginalBootlocked'
          /\ (RescueVmAndOriginalExist' /\ lookup(vms, Name) # None) =>
                ~(vms[lookup(vms, Name)].power # "Running"
                    /\ vms'[lookup(vms', Name)].power = "Running")]_vars

\* C37 witness: an unrescue failed and left the rescue VM, with the
\* original VM bootlocked and shut down.
C37_Witness ==
    /\ pc = "done"
    /\ op.kind = "unrescue"
    /\ raised # NoError
    /\ RescueVmAndOriginalExist
    /\ vms[lookup(vms, Name)].bootlock
    /\ vms[lookup(vms, Name)].power = "Halted"

\* A call of finish_revert_migration that returns, made while a VM has the
\* name of the instance or its -orig name.
RevertReturns ==
    /\ pc \in Idle
    /\ lookup(vms, Name) # None \/ lookup(vms, OrigName) # None
    /\ pc' = "done"
    /\ op'.kind = "finish_revert_migration"
    /\ raised' = NoError

ConflictingVmDestroyed ==
    (lookup(vms, OrigName) # None /\ lookup(vms, Name) # None) =>
       vms'[lookup(vms, Name)] = NoVM

ProgressValues == [i \in DOMAIN emitted |-> emitted[i].progress]

\* C39: in migrate_disk_and_power_off the progress written is 0 first and
\* then 20, 40, 60, 80 in this order, one value for each counted step that
\* completed, on either path and always out of RESIZE_TOTAL_STEPS;
\* finish_migration writes nothing while its steps run and writes 100 once,
\* after all of them have succeeded.
C39_ResizeProgressInOrder ==
    /\ op.kind \in {"resize_down", "resize_up"} =>
          /\ IsPrefix(ProgressValues, <<0, 20, 40, 60, 80>>)
          /\ Len(emitted) >= 1
          /\ \A i \in DOMAIN emitted :
                emitted[i].total = RESIZE_TOTAL_STEPS /\ emitted[i].step = i - 1
          /\ Len(emitted) - 1 <= Len(steps_run)
          /\ Len(steps_run) <= Len(emitted)
    /\ op.kind = "finish_migration" =>
          /\ ProgressValues \in {<<>>, <<100>>}
          /\ ProgressValues = <<100>> =>
                /\ pc = "done"
                /\ raised = NoError
                /\ steps_run = PipelineOrder
                /\ emitted[1].total = RESIZE_TOTAL_STEPS

\* C39 witness: a resize up has written 0, 20, 40, 60, 80 and returned.
C39_Witness ==
    /\ op.kind = "resize_up"
    /\ pc = "done"
    /\ raised = NoError
    /\ ProgressValues = <<0, 20, 40, 60, 80>>

\* C39 witnesses for the other path and for finish_migration.
C39_WitnessDown ==
    /\ op.kind = "resize_down"
    /\ pc = "done"
    /\ raised = NoError
    /\ ProgressValues = <<0, 20, 40, 60, 80>>

C39_WitnessFinish ==
    /\ op.kind = "finish_migration"
    /\ pc = "done"
    /\ ProgressValues = <<100>>

\* A call of live_migrate has ended.
LiveMigrateEnded == pc = "done" /\ op.kind = "live_migrate"

\* The migration command of the call went through.
MigrationCommandSucceeded ==
    \E c \in {"VM.migrate_send", "VM.pool_migrate"} :
       Occurs(calls, c) /\ raised.at # c

\* C40: live_migrate calls recover_method and raises whenever a part of
\* the migration raises, calls post_method only after the migration
\* command went through, and never calls both in one call.
C40_RecoverOrPostNeverBoth ==
    LiveMigrateEnded =>
       /\ raised # NoError <=> Occurs(calls, "recover_method")
       /\ Occurs(calls, "post_method") =>
             /\ MigrationCommandSucceeded
             /\ \A i \in DOMAIN calls :
                   calls[i] \in {"VM.migrate_send", "VM.pool_migrate"} =>
                      i < Index(calls, "post_method")
       /\ ~(Occurs(calls, "post_method") /\ Occurs(calls, "recover_method"))

====
